---- MODULE Spec2Model ----
(***************************************************************************)
(* Option-flow monitor: alert deduplication, the polling loop, the record  *)
(* store reload, the dashboard refresh guard and the reconciliation        *)
(* checks, modelled from the Python sources under src/.                    *)
(*                                                                         *)
(* The module holds several specifications over one set of variables; a    *)
(* specification leaves the variables of the other parts at their idle     *)
(* values.                                                                 *)
(*   SpecDedup   calls of filter_new_alerts over days, watching one        *)
(*               candidate list                                            *)
(*   SpecLast    the same calls, watching the latest call                  *)
(*   SpecDeliver the 7DTE threshold and Floor novelty engines (filter,     *)
(*               then deliver) over days, watching one key                 *)
(*   SpecLoop    run_monitor_loop.main: the poll cycles of the process     *)
(*   SpecStore   unified_db.load_all against readers of unified.db         *)
(*   SpecRefresh the dashboard's POST /api/refresh and its worker thread   *)
(*   SpecMulti   multi_source_check: confirmation and opposite orders      *)
(*   SpecFloor   monitor_floor_alerts.main: its loop over the sections      *)
(*   SpecEngines the two alert engines, one poll at a time                 *)
(*   SpecAllday  allday.db: init_db, load_allday_to_db, is_db_loaded_today  *)
(*   SpecOpposite  evaluations of allday_db.query_opposite_orders          *)
(*   SpecThreshold evaluations of monitor_7day_alerts.check_side          *)
(*   SpecReconcile the reconciliation checks on feeds that may be empty    *)
(*   SpecOrder   the two alert engines on longer alert lists, one day      *)
(*   SpecNovelty evaluations of monitor_floor_alerts.check_floor_rows      *)
(*   SpecEdit    one floor section polled while its rows are edited        *)
(*   SpecNetFlow evaluations of the net-flow queries of both stores        *)
(*   SpecHeader  evaluations of monitor_utils.find_column_index            *)
(*   SpecNormalize  unified_db._parse_rows, then _insert_entries           *)
(*   SpecParse   evaluations of parse_dollar and parse_qty                 *)
(*   SpecQuery   the flow query of the dashboard and of query_flow.py      *)
(*   SpecTransport  calls of send_telegram with one or more recipients     *)
(*   SpecOneShot one run of monitor_7day_alerts.main as a process          *)
(*   SpecSignal  polls of monitor_spx_0dte.check_signal                    *)
(*   SpecSeed    the day of the first cycle of run_monitor_loop.main       *)
(*   SpecDaily   the daily load of allday.db by run_monitor_loop.main      *)
(*   SpecRefreshFair  SpecRefresh with worker threads that go on           *)
(***************************************************************************)
EXTENDS Integers, Sequences, FiniteSets, TLC

VARIABLES
    today,      \* date.today(), as a day number
    files,      \* .tmp/<state file>: the persisted {date, seen} per namespace
    probe,      \* observation: what this behaviour watches (chosen in Init)
    obs,        \* observation: what has been seen of the probe so far
    loop,       \* run_monitor_loop.main: position, first_run, sys.argv
    db_loaded_date, \* allday_meta 'loaded_date' (-1: no such row)
    spx_last,   \* spx_0dte_signal_state.json: last_seen
    cyc,        \* observation: what happened in the current poll cycle
    udb,        \* unified.db as committed: flow_orders rows, flow_meta loaded_date
    w,          \* load_all in progress (between its two commits)
    ld,         \* observation: the latest load_all
    rd,         \* observation: the latest read of unified.db
    rf,         \* the dashboard's refresh: _refresh_status, _refresh_lock,
                \* the request handlers and the background threads
    allday,     \* allday.db: the rows of allday_orders
    mstate,     \* the state files of multi_source_check
    ms,         \* observation: the latest run of a multi_source_check feature
    fr,         \* a run of monitor_floor_alerts.main: its config, its position
                \* in the section loop and what it has done
    pf,         \* an evaluation of a function: its arguments and its result
    al          \* load_allday_to_db in progress, and what the loads have done

dedupVars == <<today, files, probe, obs>>
loopVars == <<loop, db_loaded_date, spx_last, cyc>>
storeVars == <<udb, w, ld, rd>>
refreshVars == <<rf>>
multiVars == <<allday, mstate, ms>>
floorVars == <<fr>>
evalVars == <<pf, al>>

vars == <<today, files, probe, obs, loop, db_loaded_date, spx_last, cyc,
          udb, w, ld, rd, rf, allday, mstate, ms, fr, pf, al>>

-----------------------------------------------------------------------------
(* Bounds of the model *)

MaxDay == 1      \* days are 0..MaxDay
MaxBatch == 2    \* longest candidate list handed to filter_new_alerts
MaxLoopBatch == 1 \* longest alert list an engine finds in one cycle of the loop
MaxRequests == 3  \* refresh requests served by the dashboard
MaxHandlers == 2  \* refresh requests in flight at once
MaxFeed == 2      \* longest feed (7Day, Floor) read by multi_source_check
MaxEngineBatch == 2  \* longest alert list of an engine run in SpecOrder
MaxShortFeed == 1  \* longest feed in the runs of SpecReconcile
MaxHeaderCells == 2  \* most cells of a header row given to find_column_index
MaxPatterns == 2     \* most patterns of one find_column_index call
MaxParseRows == 2    \* most data rows given to one _parse_rows call
MaxFloorRows == 2    \* most data rows of a floor section given to check_floor_rows
MaxSheetRows == 2  \* most data rows of one side handed to check_side

-----------------------------------------------------------------------------
(* Deduplication substrate: tools/monitor_utils.py, tools/monitor_7day_alerts.py *)

STATE_FILE_7DAY == "7day_alert_state.json"
STATE_FILE == "floor_alert_state.json"
StateFiles == {STATE_FILE_7DAY, STATE_FILE}

\* Two of the four sections of FLOOR_CONFIGS, in the order of the list.
FLOOR_CONFIG_LIST == <<"Floor_SPX_0DTE", "Floor_NDX_0DTE">>
FLOOR_CONFIGS == { FLOOR_CONFIG_LIST[i] : i \in 1..Len(FLOOR_CONFIG_LIST) }

\* Threshold alerts as check_side builds them.  Two of them differ only in
\* the sheet row, which is not part of the key.
Alerts7Day ==
    { [side |-> "BUYING", label |-> "AAPL 3 20 150", field |-> "Call$",
       value |-> 600000, row |-> r] : r \in {5, 6} }
    \cup
    { [side |-> "SELLING", label |-> "TSLA 3 20 200", field |-> "Put Qty",
       value |-> 1200, row |-> 5] }

\* Novelty alerts as check_floor_rows builds them: the section name and the
\* md5 of the row's cells.
AlertsFloor(cfg_name) ==
    { [monitor |-> cfg_name, row_hash |-> h, label |-> "SPX"] : h \in {"h1", "h2"} }

\* md5 hexdigest of the joined fields; md5 is taken to be collision-free on
\* the alerts of the model, so the key is the tuple of the hashed fields.
alert_key(alert) == <<alert.side, alert.label, alert.field, alert.value>>

\* _floor_alert_key without the section name.
floor_alert_key_row_only(alert) == <<alert.row_hash>>

floor_alert_key(alert) == <<alert.monitor, alert.row_hash>>

NoFile == [exists |-> FALSE, date |-> 0, seen |-> {}]

\* load_state without the date comparison.
load_state_any_date(file, d) ==
    IF ~file.exists THEN [date |-> d, seen |-> {}]
    ELSE [date |-> d, seen |-> file.seen]

\* load_state of monitor_utils: a missing file or a file of another date
\* gives a fresh state dated today.
load_state(file, d) ==
    IF ~file.exists THEN [date |-> d, seen |-> {}]
    ELSE IF file.date # d THEN [date |-> d, seen |-> {}]
    ELSE [date |-> file.date, seen |-> file.seen]

\* load_state of monitor_7day_alerts (its own copy of the same code).
load_state_7day(file, d) ==
    IF ~file.exists THEN [date |-> d, seen |-> {}]
    ELSE IF file.date # d THEN [date |-> d, seen |-> {}]
    ELSE [date |-> file.date, seen |-> file.seen]

save_state(state) == [exists |-> TRUE, date |-> state.date, seen |-> state.seen]

\* The loop of filter_new_alerts that tests every key against the keys
\* loaded from the file only.
filter_loop_loaded_only(alerts, keys, seen0) ==
    LET F[i \in 0..Len(alerts)] ==
            IF i = 0 THEN [new |-> <<>>, seen |-> seen0]
            ELSE LET p == F[i - 1]
                     key == keys[i]
                 IN  IF key \notin seen0
                     THEN [new |-> Append(p.new, alerts[i]),
                           seen |-> p.seen \cup {key}]
                     ELSE p
    IN  F[Len(alerts)]

\* The loop of filter_new_alerts: the candidates whose key is not yet seen,
\* in order, each key added as it is met.  keys[i] is key_fn(alerts[i]).
filter_loop(alerts, keys, seen0) ==
    LET F[i \in 0..Len(alerts)] ==
            IF i = 0 THEN [new |-> <<>>, seen |-> seen0]
            ELSE LET p == F[i - 1]
                     key == keys[i]
                 IN  IF key \notin p.seen
                     THEN [new |-> Append(p.new, alerts[i]),
                           seen |-> p.seen \cup {key}]
                     ELSE p
    IN  F[Len(alerts)]

\* filter_new_alerts that returns without save_state.
filter_new_alerts_unsaved(alerts, file, d) ==
    LET state == load_state(file, d)
        r == filter_loop(alerts, [i \in 1..Len(alerts) |-> floor_alert_key(alerts[i])], state.seen)
    IN  [new |-> r.new, file |-> file]

\* filter_new_alerts of monitor_utils with key_fn = _floor_alert_key:
\* the new alerts and the file as save_state leaves it.
filter_new_alerts(alerts, file, d) ==
    LET state == load_state(file, d)
        r == filter_loop(alerts, [i \in 1..Len(alerts) |-> floor_alert_key(alerts[i])], state.seen)
    IN  [new |-> r.new,
         file |-> save_state([date |-> state.date, seen |-> r.seen])]

\* filter_new_alerts that saves only when it found a new alert.
filter_new_alerts_7day_save_if_new(alerts, file, d) ==
    LET state == load_state_7day(file, d)
        r == filter_loop(alerts, [i \in 1..Len(alerts) |-> alert_key(alerts[i])], state.seen)
    IN  [new |-> r.new,
         file |-> IF r.new = <<>> THEN file
                  ELSE save_state([date |-> state.date, seen |-> r.seen])]

\* filter_new_alerts that saves the keys of this call's new alerts only.
filter_new_alerts_7day_new_only(alerts, file, d) ==
    LET state == load_state_7day(file, d)
        r == filter_loop(alerts, [i \in 1..Len(alerts) |-> alert_key(alerts[i])], state.seen)
    IN  [new |-> r.new,
         file |-> save_state([date |-> state.date,
                              seen |-> { alert_key(r.new[i]) : i \in 1..Len(r.new) }])]

\* filter_new_alerts of monitor_7day_alerts (key = _alert_key).
filter_new_alerts_7day(alerts, file, d) ==
    LET state == load_state_7day(file, d)
        r == filter_loop(alerts, [i \in 1..Len(alerts) |-> alert_key(alerts[i])], state.seen)
    IN  [new |-> r.new,
         file |-> save_state([date |-> state.date, seen |-> r.seen])]

-----------------------------------------------------------------------------
(* The engines' use of the substrate *)

\* build_alert_message / build_floor_message list the alerts in the order
\* given; the message is modelled as that list.
build_alert_message(new_alerts) == new_alerts

\* The report part of main that sends whenever there are alerts.
monitor_7day_report_send_all(all_alerts, file, d, dry_run, send_ok) ==
    IF all_alerts = <<>>
    THEN [file |-> file, filtered |-> FALSE, new |-> <<>>, message |-> <<>>,
          sent |-> FALSE, ok |-> TRUE, exit |-> 0]
    ELSE LET r == filter_new_alerts_7day(all_alerts, file, d)
         IN  [file |-> r.file, filtered |-> TRUE, new |-> r.new,
              message |-> build_alert_message(r.new),
              sent |-> ~dry_run, ok |-> dry_run \/ send_ok,
              exit |-> IF dry_run \/ send_ok THEN 0 ELSE 1]

\* The report part of main that only prints a failed send, as the Floor
\* monitor does.
monitor_7day_report_exit_zero(all_alerts, file, d, dry_run, send_ok) ==
    IF all_alerts = <<>>
    THEN [file |-> file, filtered |-> FALSE, new |-> <<>>, message |-> <<>>,
          sent |-> FALSE, ok |-> TRUE, exit |-> 0]
    ELSE LET r == filter_new_alerts_7day(all_alerts, file, d)
         IN  [file |-> r.file, filtered |-> TRUE, new |-> r.new,
              message |-> build_alert_message(r.new),
              sent |-> ~dry_run /\ r.new # <<>>,
              ok |-> dry_run \/ send_ok \/ r.new = <<>>,
              exit |-> 0]

\* monitor_7day_alerts.main from "--- Report ---" on: nothing to do without
\* alerts; otherwise filter, and send unless --dry-run; a failed send ends
\* in sys.exit(1).
monitor_7day_report(all_alerts, file, d, dry_run, send_ok) ==
    IF all_alerts = <<>>
    THEN [file |-> file, filtered |-> FALSE, new |-> <<>>, message |-> <<>>,
          sent |-> FALSE, ok |-> TRUE, exit |-> 0]
    ELSE LET r == filter_new_alerts_7day(all_alerts, file, d)
         IN  IF r.new = <<>>
             THEN [file |-> r.file, filtered |-> TRUE, new |-> <<>>, message |-> <<>>,
                   sent |-> FALSE, ok |-> TRUE, exit |-> 0]
             ELSE IF dry_run
             THEN [file |-> r.file, filtered |-> TRUE, new |-> r.new,
                   message |-> build_alert_message(r.new),
                   sent |-> FALSE, ok |-> TRUE, exit |-> 0]
             ELSE [file |-> r.file, filtered |-> TRUE, new |-> r.new,
                   message |-> build_alert_message(r.new),
                   sent |-> TRUE, ok |-> send_ok,
                   exit |-> IF send_ok THEN 0 ELSE 1]

\* floor_section that puts the state file back when the send failed.
floor_section_rollback(section_alerts, file, d, dry_run, send_ok) ==
    LET r == filter_new_alerts(section_alerts, file, d)
    IN  IF section_alerts = <<>>
        THEN [file |-> file, filtered |-> FALSE, new |-> <<>>, message |-> <<>>,
              sent |-> FALSE, ok |-> TRUE, exit |-> 0]
        ELSE [file |-> IF ~dry_run /\ ~send_ok /\ r.new # <<>> THEN file ELSE r.file,
              filtered |-> TRUE, new |-> r.new,
              message |-> build_alert_message(r.new),
              sent |-> ~dry_run /\ r.new # <<>>, ok |-> dry_run \/ send_ok \/ r.new = <<>>,
              exit |-> 0]

\* One iteration of the section loop of monitor_floor_alerts.main, from the
\* result of check_floor_rows on: filter when the section has alerts, send
\* the section's message unless --dry-run; a failed send is only printed.
floor_section(section_alerts, file, d, dry_run, send_ok) ==
    IF section_alerts = <<>>
    THEN [file |-> file, filtered |-> FALSE, new |-> <<>>, message |-> <<>>,
          sent |-> FALSE, ok |-> TRUE, exit |-> 0]
    ELSE LET r == filter_new_alerts(section_alerts, file, d)
         IN  IF r.new = <<>>
             THEN [file |-> r.file, filtered |-> TRUE, new |-> <<>>, message |-> <<>>,
                   sent |-> FALSE, ok |-> TRUE, exit |-> 0]
             ELSE IF dry_run
             THEN [file |-> r.file, filtered |-> TRUE, new |-> r.new,
                   message |-> build_alert_message(r.new),
                   sent |-> FALSE, ok |-> TRUE, exit |-> 0]
             ELSE [file |-> r.file, filtered |-> TRUE, new |-> r.new,
                   message |-> build_alert_message(r.new),
                   sent |-> TRUE, ok |-> send_ok, exit |-> 0]

-----------------------------------------------------------------------------
(* Text and numbers: the string methods and the parsers of monitor_utils *)

Range(s) == { s[i] : i \in 1..Len(s) }

\* Text is a string; Char(str, i) is its i-th character as a string.
Char(str, i) == SubSeq(str, i, i)
Whitespace == {" ", "\t", "\n"}
Digits == "0123456789"
UpperLetters == "ABCDEFGHIJKLMNOPQRSTUVWXYZ"
LowerLetters == "abcdefghijklmnopqrstuvwxyz"

\* str.strip(): leading and trailing whitespace removed.
RECURSIVE strip(_)
strip(str) ==
    IF str = "" THEN str
    ELSE IF Char(str, 1) \in Whitespace THEN strip(SubSeq(str, 2, Len(str)))
    ELSE IF Char(str, Len(str)) \in Whitespace THEN strip(SubSeq(str, 1, Len(str) - 1))
    ELSE str

\* str.rstrip(chars): every trailing character of chars removed.
RECURSIVE rstrip_chars(_, _)
rstrip_chars(str, chars) ==
    IF str = "" THEN str
    ELSE IF Char(str, Len(str)) \in chars
    THEN rstrip_chars(SubSeq(str, 1, Len(str) - 1), chars)
    ELSE str

\* str.replace(ch, ""): every ch removed.
RECURSIVE remove(_, _)
remove(str, ch) ==
    IF str = "" THEN str
    ELSE (IF Char(str, 1) = ch THEN "" ELSE Char(str, 1))
         \o remove(SubSeq(str, 2, Len(str)), ch)

\* str.lower() and str.upper() on the letters A..Z.
ToLower == [ch \in { Char(UpperLetters, k) : k \in 1..26 } |->
                Char(LowerLetters, CHOOSE k \in 1..26 : Char(UpperLetters, k) = ch)]
ToUpper == [ch \in { Char(LowerLetters, k) : k \in 1..26 } |->
                Char(UpperLetters, CHOOSE k \in 1..26 : Char(LowerLetters, k) = ch)]
lower_char(ch) == IF ch \in DOMAIN ToLower THEN ToLower[ch] ELSE ch
upper_char(ch) == IF ch \in DOMAIN ToUpper THEN ToUpper[ch] ELSE ch
RECURSIVE lower(_)
lower(str) ==
    IF str = "" THEN str
    ELSE lower_char(Char(str, 1)) \o lower(SubSeq(str, 2, Len(str)))

\* sub in str.
contains(str, sub) ==
    \E i \in 1..(Len(str) - Len(sub) + 1) : SubSeq(str, i, i + Len(sub) - 1) = sub

\* A float is num / den with den a power of ten, den = 1 when it is whole;
\* the rounding of binary floating point is left out.
Float(num, den) == [num |-> num, den |-> den]
RECURSIVE reduced(_)
reduced(f) ==
    IF f.den > 1 /\ f.num % 10 = 0 THEN reduced(Float(f.num \div 10, f.den \div 10))
    ELSE f
times(f, multiplier) ==
    IF f.den = 0 THEN f ELSE reduced(Float(f.num * multiplier, f.den))
above(f, threshold) == f.num > threshold * f.den

\* The value of a text of decimal digits.
RECURSIVE digits_value(_)
digits_value(str) ==
    IF str = "" THEN 0
    ELSE 10 * digits_value(SubSeq(str, 1, Len(str) - 1))
         + ((CHOOSE k \in 1..10 : Char(Digits, k) = Char(str, Len(str))) - 1)
RECURSIVE pow10(_)
pow10(n) == IF n = 0 THEN 1 ELSE 10 * pow10(n - 1)
all_digits(str) == \A i \in 1..Len(str) : \E k \in 1..10 : Char(Digits, k) = Char(str, i)

\* A digitpart of Python's float grammar: digits, with single "_" between
\* digits allowed.
digitpart(str) ==
    /\ str # ""
    /\ \A i \in 1..Len(str) : Char(str, i) = "_" \/ all_digits(Char(str, i))
    /\ Char(str, 1) # "_" /\ Char(str, Len(str)) # "_"
    /\ \A i \in 1..(Len(str) - 1) : ~(Char(str, i) = "_" /\ Char(str, i + 1) = "_")

\* The first place of ch in str, Len(str) + 1 when there is none.
first_index(str, ch) ==
    IF \E i \in 1..Len(str) : Char(str, i) = ch
    THEN CHOOSE i \in 1..Len(str) :
            Char(str, i) = ch /\ \A k \in 1..(i - 1) : Char(str, k) # ch
    ELSE Len(str) + 1

\* str.count(ch)
count(str, ch) == Cardinality({i \in 1..Len(str) : Char(str, i) = ch})

\* The float of sign, n and a number of decimal places.
float_value(sign, n, places) ==
    [ok |-> TRUE,
     val |-> IF places >= 0
             THEN reduced(Float(sign * n, pow10(places)))
             ELSE Float(sign * n * pow10(-places), 1)]

\* The float of a mantissa cut at its point and an exponent cut after its
\* sign: at most one point, at least one digit, digitparts throughout.
float_of_digits(sign, points, whole, frac, has_exp, exp_sign, exp_digits) ==
    IF /\ points <= 1
       /\ whole = "" \/ digitpart(whole)
       /\ frac = "" \/ digitpart(frac)
       /\ Len(whole) + Len(frac) > 0
       /\ ~has_exp \/ digitpart(exp_digits)
    THEN float_value(sign, digits_value(remove(whole, "_") \o remove(frac, "_")),
                     Len(remove(frac, "_"))
                        - (IF has_exp THEN exp_sign * digits_value(remove(exp_digits, "_"))
                           ELSE 0))
    ELSE [ok |-> FALSE, val |-> Float(0, 1)]

\* The float of a mantissa and the text after the first "e".
float_of_fields(sign, mantissa, has_exp, exponent) ==
    float_of_digits(sign, count(mantissa, "."),
                    SubSeq(mantissa, 1, first_index(mantissa, ".") - 1),
                    SubSeq(mantissa, first_index(mantissa, ".") + 1, Len(mantissa)),
                    has_exp,
                    IF exponent # "" /\ Char(exponent, 1) = "-" THEN -1 ELSE 1,
                    IF exponent # "" /\ Char(exponent, 1) \in {"-", "+"}
                    THEN SubSeq(exponent, 2, Len(exponent)) ELSE exponent)

\* The float of a sign and the lowered text after it.
float_of_unsigned(sign, u) ==
    IF u \in {"inf", "infinity"} THEN [ok |-> TRUE, val |-> Float(sign, 0)]
    ELSE IF u = "nan" THEN [ok |-> TRUE, val |-> Float(0, 0)]
    ELSE float_of_fields(sign, SubSeq(u, 1, first_index(u, "e") - 1), count(u, "e") > 0,
                         SubSeq(u, first_index(u, "e") + 1, Len(u)))

\* The float of a text without blanks around it.
float_of_stripped(t) ==
    float_of_unsigned(IF t # "" /\ Char(t, 1) = "-" THEN -1 ELSE 1,
                      lower(IF t # "" /\ Char(t, 1) \in {"-", "+"}
                            THEN SubSeq(t, 2, Len(t)) ELSE t))

\* float(str): blanks around the text dropped, one sign, then "inf",
\* "infinity" or "nan" in any case, or digits with at most one point, at
\* least one digit and an optional exponent; anything else is a ValueError
\* (ok is FALSE).  Infinity is Float(1, 0) or Float(-1, 0), nan is Float(0, 0).
float(str) == float_of_stripped(strip(str))

\* What a call gives when an exception leaves it: no value.
Raised == [num |-> 0, den |-> -1]

\* The end of the try block: the float times the multiplier, or what the
\* except clause makes of a ValueError.
parse_result(f, multiplier, caught) ==
    IF f.ok THEN times(f.val, multiplier)
    ELSE IF "ValueError" \in caught THEN Float(0, 1) ELSE Raised

\* The suffix of suffixes that is the letter last, as a set.
suffix_hit(suffixes, last) == { x \in Range(suffixes) : x.letter = last }

\* The try block shared by parse_dollar and parse_qty, on the text s after
\* the replacements, with the suffixes in the order the code tests them and
\* the exceptions the except clause names: s[-1] of an empty s raises
\* IndexError, a float() that fails raises ValueError; a caught exception
\* gives 0.0.
parse_try(s, suffixes, caught) ==
    IF s = "" THEN (IF "IndexError" \in caught THEN Float(0, 1) ELSE Raised)
    ELSE IF suffix_hit(suffixes, upper_char(Char(s, Len(s)))) # {}
    THEN parse_result(float(SubSeq(s, 1, Len(s) - 1)),
                      (CHOOSE x \in suffix_hit(suffixes, upper_char(Char(s, Len(s)))) : TRUE).multiplier,
                      caught)
    ELSE parse_result(float(s), 1, caught)

\* The try block with "except ValueError" alone.
parse_suffixed_value_error_only(s, suffixes) == parse_try(s, suffixes, {"ValueError"})

\* except (ValueError, IndexError)
parse_suffixed(s, suffixes) == parse_try(s, suffixes, {"ValueError", "IndexError"})

\* monitor_utils.parse_dollar (the same text as monitor_7day_alerts.parse_dollar).
parse_dollar(value) ==
    IF value = "" \/ strip(value) = "" THEN Float(0, 1)
    ELSE parse_suffixed(strip(remove(remove(strip(value), "$"), ",")),
                        <<[letter |-> "M", multiplier |-> 1000000],
                          [letter |-> "K", multiplier |-> 1000],
                          [letter |-> "B", multiplier |-> 1000000000]>>)

\* monitor_utils.parse_qty (the same text as monitor_7day_alerts.parse_qty).
parse_qty(value) ==
    IF value = "" \/ strip(value) = "" THEN Float(0, 1)
    ELSE parse_suffixed(strip(remove(strip(value), ",")),
                        <<[letter |-> "K", multiplier |-> 1000],
                          [letter |-> "M", multiplier |-> 1000000]>>)

-----------------------------------------------------------------------------
(* Inputs and observation of SpecDedup *)

SeqsUpTo(S, n) == UNION { [1..k -> S] : k \in 0..n }

Batches7Day == SeqsUpTo(Alerts7Day, MaxBatch)
BatchesFloor(cfg_name) == SeqsUpTo(AlertsFloor(cfg_name), MaxBatch)

KeySeq7Day(alerts) == [i \in 1..Len(alerts) |-> alert_key(alerts[i])]
KeySeqFloor(alerts) == [i \in 1..Len(alerts) |-> floor_alert_key(alerts[i])]

Count(s, x) == Cardinality({ i \in 1..Len(s) : s[i] = x })
Min2(n) == IF n > 2 THEN 2 ELSE n

KeysOfFile(ns) ==
    IF ns = STATE_FILE_7DAY THEN { alert_key(a) : a \in Alerts7Day }
    ELSE UNION { { floor_alert_key(a) : a \in AlertsFloor(c) } : c \in FLOOR_CONFIGS }

BatchesOfFile(ns) ==
    IF ns = STATE_FILE_7DAY THEN Batches7Day
    ELSE UNION { BatchesFloor(c) : c \in FLOOR_CONFIGS }

\* What a behaviour watches: one key of one namespace ("key"), one candidate
\* list of one namespace ("batch"), or the latest filter call ("last").
Probes ==
    { [mode |-> "key", ns |-> ns, key |-> k, batch |-> <<>>] :
        ns \in StateFiles, k \in KeysOfFile(STATE_FILE_7DAY) \cup KeysOfFile(STATE_FILE) }
    \cup
    { [mode |-> "batch", ns |-> ns, key |-> <<>>, batch |-> b] :
        ns \in StateFiles, b \in BatchesOfFile(STATE_FILE_7DAY) \cup BatchesOfFile(STATE_FILE) }
    \cup
    { [mode |-> "last", ns |-> "", key |-> <<>>, batch |-> <<>>] }

ProbeOk(p) ==
    \/ p.mode = "last"
    \/ p.mode = "key" /\ p.key \in KeysOfFile(p.ns)
    \/ p.mode = "batch" /\ p.batch \in BatchesOfFile(p.ns) /\ p.batch # <<>>

ObsIdle ==
    [offered |-> 0, ret |-> 0, sent |-> 0, failed |-> FALSE,
     called |-> FALSE, repeat |-> FALSE, out |-> <<>>,
     ns |-> "", cands |-> <<>>, new |-> <<>>, prior |-> {}, stale |-> FALSE,
     at |-> 0, delivered |-> FALSE, exit |-> 0,
     rows |-> <<>>, newrows |-> <<>>, hist |-> {}, allrows |-> {},
     inp |-> <<>>, msg |-> <<>>]

\* The section and the row content of the alerts of a Floor section.
SectionRows(alerts) ==
    [i \in 1..Len(alerts) |->
        [section |-> alerts[i].monitor, content |-> alerts[i].row_hash]]

\* obs after an engine run on namespace ns with candidate keys candKeys,
\* file before the run `before`, and the run's result res.
Observe(ns, cands, candKeys, newKeys, before, res) ==
    IF ~res.filtered THEN obs
    ELSE IF probe.mode = "key" /\ ns = probe.ns
    THEN [obs EXCEPT
            !.offered = Min2(@ + (IF probe.key \in Range(candKeys) THEN 1 ELSE 0)),
            !.ret = Min2(@ + Count(newKeys, probe.key)),
            !.sent = Min2(@ + (IF res.sent /\ probe.key \in Range(newKeys) THEN 1 ELSE 0)),
            !.failed = @ \/ (res.sent /\ ~res.ok /\ probe.key \in Range(newKeys))]
    ELSE IF probe.mode = "batch" /\ ns = probe.ns
    THEN [obs EXCEPT
            !.repeat = obs.called /\ cands = probe.batch,
            !.out = IF cands = probe.batch THEN res.new ELSE <<>>,
            !.called = @ \/ cands = probe.batch]
    ELSE IF probe.mode = "last"
    THEN [obs EXCEPT
            !.ns = ns, !.cands = candKeys, !.new = newKeys,
            !.prior = before.seen,
            !.stale = before.exists /\ before.date # today,
            !.at = today, !.delivered = res.sent, !.exit = res.exit,
            !.inp = cands, !.out = res.new, !.msg = res.message,
            !.rows = IF ns = STATE_FILE THEN SectionRows(cands) ELSE <<>>,
            !.newrows = IF ns = STATE_FILE THEN SectionRows(res.new) ELSE <<>>,
            !.hist = IF obs.at = today THEN obs.allrows ELSE {},
            !.allrows = (IF obs.at = today THEN obs.allrows ELSE {})
                        \cup (IF ns = STATE_FILE THEN Range(SectionRows(cands)) ELSE {})]
    ELSE obs

-----------------------------------------------------------------------------
(* SpecDedup: calls of filter_new_alerts over days.                         *)
(* SpecDeliver: the two engines (filter, then deliver) over days.           *)

StoreIdle ==
    /\ udb = [rows |-> {}, loaded_date |-> -1]
    /\ w = [pc |-> "idle", entries |-> {}, before |-> [rows |-> {}, loaded_date |-> -1]]
    /\ ld = [sources |-> {}, outcome |-> "none", intact |-> TRUE, exact |-> TRUE,
             others |-> TRUE]
    /\ rd = [during |-> FALSE, partial |-> FALSE]

Handlers == 1..MaxHandlers

HandlerIdle == [pc |-> "idle", saw |-> FALSE, ret |-> "", started |-> 0]

\* last_result is 0 for None, and t for the result stored by the t-th
\* background thread (its entry count and timestamp).
RefreshIdle ==
    rf = [running |-> FALSE, last_result |-> 0, last_error |-> "None",
          lock |-> 0, h |-> [i \in Handlers |-> HandlerIdle],
          threads |-> <<>>, served |-> 0]

MULTI_SOURCE_STATE == "multi_source_state.json"

\* The state files of multi_source_check: the one it names, and the two
\* that check_opposite_orders refers to by the names ROWS_SEEN_STATE and
\* OPPOSITE_ORDER_STATE.
MultiStateFiles == {MULTI_SOURCE_STATE, "ROWS_SEEN_STATE", "OPPOSITE_ORDER_STATE"}

MsIdle ==
    [op |-> "none", raised |-> "", aligned |-> {}, cands |-> <<>>,
     keys |-> {}, queried |-> <<>>, no7 |-> FALSE, nofloor |-> FALSE,
     sent |-> FALSE]

MultiIdle ==
    /\ allday = {}
    /\ mstate = [f \in MultiStateFiles |-> NoFile]
    /\ ms = MsIdle

FloorIdle ==
    fr = [pc |-> "idle", config |-> <<>>, section |-> 1, dry_run |-> FALSE,
          processed |-> {}, skipped |-> {}, raised |-> ""]

AlIdle == [pc |-> "idle", today |-> 0, entries |-> {}, stamp |-> -1, fresh |-> FALSE]

EvalIdle ==
    /\ pf = [fn |-> "", args |-> <<>>, done |-> FALSE, result |-> <<>>]
    /\ al = AlIdle

LoopIdle ==
    /\ loop = [pc |-> "sleep", first_run |-> TRUE, argv_dry |-> FALSE, section |-> 1]
    /\ db_loaded_date = -1
    /\ spx_last = ""
    /\ cyc = [failed7 |-> FALSE, ran |-> <<>>, read_err |-> {}, processed |-> {}]

InitDedup ==
    /\ LoopIdle /\ StoreIdle /\ RefreshIdle /\ MultiIdle /\ FloorIdle /\ EvalIdle
    /\ today = 0
    /\ files = [ns \in StateFiles |-> NoFile]
    /\ probe \in { p \in Probes : ProbeOk(p) /\ p.mode = "batch" }
    /\ obs = ObsIdle

InitLast ==
    /\ LoopIdle /\ StoreIdle /\ RefreshIdle /\ MultiIdle /\ FloorIdle /\ EvalIdle
    /\ today = 0
    /\ files = [ns \in StateFiles |-> NoFile]
    /\ probe \in { p \in Probes : ProbeOk(p) /\ p.mode = "last" }
    /\ obs = ObsIdle

InitDeliver ==
    /\ LoopIdle /\ StoreIdle /\ RefreshIdle /\ MultiIdle /\ FloorIdle /\ EvalIdle
    /\ today = 0
    /\ files = [ns \in StateFiles |-> NoFile]
    /\ probe \in { p \in Probes : ProbeOk(p) /\ p.mode = "key" }
    /\ obs = ObsIdle

\* The calendar date changes between two polls.
DayChange ==
    /\ today < MaxDay
    /\ today' = today + 1
    /\ obs' = IF probe.mode = "last" THEN obs ELSE ObsIdle
    /\ UNCHANGED <<files, probe>>

FilterResult(r) ==
    [file |-> r.file, filtered |-> TRUE, new |-> r.new, message |-> <<>>,
     sent |-> FALSE, ok |-> TRUE, exit |-> 0]

\* A call filter_new_alerts(alerts) of monitor_7day_alerts.
Filter7Day ==
    \E alerts \in Batches7Day :
        LET r == filter_new_alerts_7day(alerts, files[STATE_FILE_7DAY], today)
        IN  /\ files' = [files EXCEPT ![STATE_FILE_7DAY] = r.file]
            /\ obs' = Observe(STATE_FILE_7DAY, alerts, KeySeq7Day(alerts),
                              KeySeq7Day(r.new), files[STATE_FILE_7DAY],
                              FilterResult(r))
            /\ UNCHANGED <<today, probe>>

\* A call filter_new_alerts(alerts, STATE_FILE, key_fn=_floor_alert_key) of
\* monitor_utils, with the alerts of one section.
FilterFloor ==
    \E cfg_name \in FLOOR_CONFIGS :
      \E alerts \in BatchesFloor(cfg_name) :
        LET r == filter_new_alerts(alerts, files[STATE_FILE], today)
        IN  /\ files' = [files EXCEPT ![STATE_FILE] = r.file]
            /\ obs' = Observe(STATE_FILE, alerts, KeySeqFloor(alerts),
                              KeySeqFloor(r.new), files[STATE_FILE],
                              FilterResult(r))
            /\ UNCHANGED <<today, probe>>

NextDedup ==
    \/ DayChange /\ UNCHANGED <<loopVars, storeVars, refreshVars, multiVars, floorVars, evalVars>>
    \/ Filter7Day /\ UNCHANGED <<loopVars, storeVars, refreshVars, multiVars, floorVars, evalVars>>
    \/ FilterFloor /\ UNCHANGED <<loopVars, storeVars, refreshVars, multiVars, floorVars, evalVars>>

SpecDedup == InitDedup /\ [][NextDedup]_vars

SpecLast == InitLast /\ [][NextDedup]_vars

\* One run of the 7DTE threshold monitor (the transport answers send_ok;
\* it is not asked under --dry-run).
Monitor7Day ==
    \E all_alerts \in Batches7Day, dry_run \in BOOLEAN, send_ok \in BOOLEAN :
        LET res == monitor_7day_report(all_alerts, files[STATE_FILE_7DAY], today,
                                       dry_run, send_ok)
        IN  /\ dry_run => send_ok
            /\ files' = [files EXCEPT ![STATE_FILE_7DAY] = res.file]
            /\ obs' = Observe(STATE_FILE_7DAY, all_alerts, KeySeq7Day(all_alerts),
                              KeySeq7Day(res.new), files[STATE_FILE_7DAY], res)
            /\ UNCHANGED <<today, probe>>

\* One section of one run of the Floor novelty monitor.
MonitorFloorSection ==
    \E cfg_name \in FLOOR_CONFIGS, dry_run \in BOOLEAN, send_ok \in BOOLEAN :
      \E section_alerts \in BatchesFloor(cfg_name) :
        LET res == floor_section(section_alerts, files[STATE_FILE], today,
                                 dry_run, send_ok)
        IN  /\ dry_run => send_ok
            /\ files' = [files EXCEPT ![STATE_FILE] = res.file]
            /\ obs' = Observe(STATE_FILE, section_alerts, KeySeqFloor(section_alerts),
                              KeySeqFloor(res.new), files[STATE_FILE], res)
            /\ UNCHANGED <<today, probe>>

NextDeliver ==
    \/ DayChange /\ UNCHANGED <<loopVars, storeVars, refreshVars, multiVars, floorVars, evalVars>>
    \/ Monitor7Day /\ UNCHANGED <<loopVars, storeVars, refreshVars, multiVars, floorVars, evalVars>>
    \/ MonitorFloorSection /\ UNCHANGED <<loopVars, storeVars, refreshVars, multiVars, floorVars, evalVars>>

SpecDeliver == InitDeliver /\ [][NextDeliver]_vars

-----------------------------------------------------------------------------
(* The polling loop: run_monitor_loop.py, tools/monitor_spx_0dte.py *)

\* What read_sheet gives for "A4:A4": no row for an empty cell, or one row
\* with the cell.
SpxCells == { <<>>, << <<"Buy Calls">> >>, << <<"Buy Puts?">> >>, << <<"Chop">> >> }

BUY_SIGNALS == {"buy calls", "buy puts"}

\* `not data or not data[0]` is false.
HasCell(data) == data # <<>> /\ data[1] # <<>>

\* value_clean of check_signal: str(data[0][0]).strip().lower().rstrip("?! ")
value_clean_of(data) == rstrip_chars(lower(strip(data[1][1])), {"?", "!", " "})

\* check_signal that saves last_seen for a buy signal only.
check_signal_save_buy_only(data, last_seen, dry_run) ==
    IF data = <<>> \/ data[1] = <<>>
    THEN [last_seen |-> last_seen, saved |-> FALSE, sent |-> FALSE]
    ELSE LET value_clean == value_clean_of(data)
         IN  IF value_clean = last_seen
             THEN [last_seen |-> last_seen, saved |-> FALSE, sent |-> FALSE]
             ELSE IF value_clean \notin BUY_SIGNALS
             THEN [last_seen |-> last_seen, saved |-> FALSE, sent |-> FALSE]
             ELSE [last_seen |-> value_clean, saved |-> TRUE, sent |-> ~dry_run]

\* check_signal: nothing on an empty cell or on a value equal to last_seen;
\* otherwise last_seen is saved, and then send_telegram is called for a buy
\* signal unless dry_run.  `sent` says that send_telegram was called; what it
\* answers is not looked at.
check_signal(data, last_seen, dry_run) ==
    IF data = <<>> \/ data[1] = <<>>
    THEN [last_seen |-> last_seen, saved |-> FALSE, sent |-> FALSE]
    ELSE LET value_clean == value_clean_of(data)
         IN  IF value_clean = last_seen
             THEN [last_seen |-> last_seen, saved |-> FALSE, sent |-> FALSE]
             ELSE [last_seen |-> value_clean, saved |-> TRUE,
                   sent |-> value_clean \in BUY_SIGNALS /\ ~dry_run]

\* What "except Exception" of the loop does with the way an engine ended:
\* a return or an Exception goes on to the next step; SystemExit is not an
\* Exception and leaves main.
after_engine(ended, next_pc) ==
    IF ended = "SystemExit" THEN "terminated" ELSE next_pc

LoopBatches7Day == SeqsUpTo(Alerts7Day, MaxLoopBatch)
LoopBatchesFloor(cfg_name) == SeqsUpTo(AlertsFloor(cfg_name), MaxLoopBatch)

NoProbe == [mode |-> "none", ns |-> "", key |-> <<>>, batch |-> <<>>]

\* One run of monitor_7day_alerts.main on what it finds in one poll.
Engine7DayOn(batches) ==
    \E all_alerts \in batches, dry_run \in BOOLEAN, send_ok \in BOOLEAN :
        LET res == monitor_7day_report(all_alerts, files[STATE_FILE_7DAY], today,
                                       dry_run, send_ok)
        IN  /\ dry_run => send_ok
            /\ files' = [files EXCEPT ![STATE_FILE_7DAY] = res.file]
            /\ obs' = Observe(STATE_FILE_7DAY, all_alerts, KeySeq7Day(all_alerts),
                              KeySeq7Day(res.new), files[STATE_FILE_7DAY], res)
            /\ UNCHANGED <<today, probe>>

\* One section of one run of monitor_floor_alerts.main on what it finds in
\* one poll.
EngineFloorSectionOn(longest) ==
    \E cfg_name \in FLOOR_CONFIGS, dry_run \in BOOLEAN, send_ok \in BOOLEAN :
      \E section_alerts \in SeqsUpTo(AlertsFloor(cfg_name), longest) :
        LET res == floor_section(section_alerts, files[STATE_FILE], today,
                                 dry_run, send_ok)
        IN  /\ dry_run => send_ok
            /\ files' = [files EXCEPT ![STATE_FILE] = res.file]
            /\ obs' = Observe(STATE_FILE, section_alerts, KeySeqFloor(section_alerts),
                              KeySeqFloor(res.new), files[STATE_FILE], res)
            /\ UNCHANGED <<today, probe>>

Engine7Day == Engine7DayOn(LoopBatches7Day)
EngineFloorSection == EngineFloorSectionOn(MaxLoopBatch)

NextEngines ==
    \/ DayChange /\ UNCHANGED <<loopVars, storeVars, refreshVars, multiVars, floorVars, evalVars>>
    \/ Engine7Day /\ UNCHANGED <<loopVars, storeVars, refreshVars, multiVars, floorVars, evalVars>>
    \/ EngineFloorSection /\ UNCHANGED <<loopVars, storeVars, refreshVars, multiVars, floorVars, evalVars>>

\* The two engines over days, observing the latest run.
SpecEngines == InitLast /\ [][NextEngines]_vars

\* The two engines on one day, on alert lists of up to MaxEngineBatch.
NextOrder ==
    \/ Engine7DayOn(SeqsUpTo(Alerts7Day, MaxEngineBatch))
            /\ UNCHANGED <<loopVars, storeVars, refreshVars, multiVars, floorVars, evalVars>>
    \/ EngineFloorSectionOn(MaxEngineBatch)
            /\ UNCHANGED <<loopVars, storeVars, refreshVars, multiVars, floorVars, evalVars>>

SpecOrder == InitLast /\ [][NextOrder]_vars

InitLoop ==
    /\ LoopIdle /\ StoreIdle /\ RefreshIdle /\ MultiIdle /\ FloorIdle /\ EvalIdle
    /\ today = 0
    /\ files = [ns \in StateFiles |-> NoFile]
    /\ probe = NoProbe
    /\ obs = ObsIdle

\* The loop sleeps while the market is closed; the date may change.
LoopNight ==
    /\ loop.pc = "sleep"
    /\ DayChange
    /\ UNCHANGED loopVars

\* LoopWake that never puts --dry-run into sys.argv.
LoopWakeWithoutDryRun ==
    /\ loop.pc = "sleep"
    /\ loop' = [loop EXCEPT !.pc = "db", !.argv_dry = FALSE]
    /\ cyc' = [failed7 |-> FALSE, ran |-> <<>>, read_err |-> {}, processed |-> {}]
    /\ UNCHANGED <<dedupVars, db_loaded_date, spx_last>>

\* Top of the while loop in market hours: the first cycle runs the argparse
\* monitors with --dry-run.
LoopWake ==
    /\ loop.pc = "sleep"
    /\ loop' = [loop EXCEPT !.pc = "db", !.argv_dry = loop.first_run]
    /\ cyc' = [failed7 |-> FALSE, ran |-> <<>>, read_err |-> {}, processed |-> {}]
    /\ UNCHANGED <<dedupVars, db_loaded_date, spx_last>>

\* LoopLoadDb that goes on to the Floor monitor.
LoopLoadDbThenFloor ==
    /\ loop.pc = "db"
    /\ \E load_ok \in BOOLEAN :
        db_loaded_date' = IF db_loaded_date # today /\ load_ok THEN today
                          ELSE db_loaded_date
    /\ loop' = [loop EXCEPT !.pc = "floor"]
    /\ UNCHANGED <<dedupVars, spx_last, cyc>>

\* "Load allDay data once per day": load_allday_to_db when
\* is_db_loaded_today() is false; an Exception of the load is caught.
LoopLoadDb ==
    /\ loop.pc = "db"
    /\ \E load_ok \in BOOLEAN :
        db_loaded_date' = IF db_loaded_date # today /\ load_ok THEN today
                          ELSE db_loaded_date
    /\ loop' = [loop EXCEPT !.pc = "7dte"]
    /\ UNCHANGED <<dedupVars, spx_last, cyc>>

\* run_monitor() inside try / except Exception, when the sheet read works or
\* not (read_ok), check_side finds all_alerts and the transport answers
\* send_ok.
Loop7DteOn(read_ok, all_alerts, send_ok) ==
    /\ loop.pc = "7dte"
    /\  LET res == monitor_7day_report(all_alerts, files[STATE_FILE_7DAY], today,
                                       loop.argv_dry, send_ok)
            ended == IF ~read_ok THEN "Exception"
                     ELSE IF res.exit # 0 THEN "SystemExit" ELSE "return"
        IN  /\ files' = IF read_ok THEN [files EXCEPT ![STATE_FILE_7DAY] = res.file]
                        ELSE files
            /\ obs' = IF read_ok
                      THEN Observe(STATE_FILE_7DAY, all_alerts, KeySeq7Day(all_alerts),
                                   KeySeq7Day(res.new), files[STATE_FILE_7DAY], res)
                      ELSE obs
            /\ cyc' = [failed7 |-> read_ok /\ res.sent /\ ~res.ok,
                       ran |-> Append(cyc.ran, "7dte"),
                       read_err |-> IF read_ok THEN cyc.read_err
                                    ELSE cyc.read_err \cup {"7Day"},
                       processed |-> IF read_ok THEN cyc.processed \cup {"7Day"}
                                     ELSE cyc.processed]
            /\ loop' = [loop EXCEPT !.pc = after_engine(ended, "floor"), !.section = 1]
    /\ UNCHANGED <<today, probe, db_loaded_date, spx_last>>

Loop7Dte ==
    \E read_ok \in BOOLEAN, all_alerts \in LoopBatches7Day, send_ok \in BOOLEAN :
        Loop7DteOn(read_ok, all_alerts, send_ok)

\* run_floor_monitor() inside try / except Exception: one section of its
\* loop per step; a read_sheet error leaves the function.
LoopFloorSectionOn(read_ok, section_alerts, send_ok) ==
    /\ loop.pc = "floor"
    /\  LET res == floor_section(section_alerts, files[STATE_FILE], today,
                                 loop.argv_dry, send_ok)
            last == loop.section = Len(FLOOR_CONFIG_LIST)
        IN  /\ files' = IF read_ok THEN [files EXCEPT ![STATE_FILE] = res.file]
                        ELSE files
            /\ obs' = IF read_ok
                      THEN Observe(STATE_FILE, section_alerts, KeySeqFloor(section_alerts),
                                   KeySeqFloor(res.new), files[STATE_FILE], res)
                      ELSE obs
            /\ cyc' = [cyc EXCEPT
                        !.ran = IF loop.section = 1 THEN Append(@, "floor") ELSE @,
                        !.read_err = IF read_ok THEN @
                                     ELSE @ \cup {FLOOR_CONFIG_LIST[loop.section]},
                        !.processed = IF read_ok
                                      THEN @ \cup {FLOOR_CONFIG_LIST[loop.section]}
                                      ELSE @]
            /\ loop' = IF ~read_ok \/ last
                       THEN [loop EXCEPT !.pc = "spx", !.section = 1]
                       ELSE [loop EXCEPT !.section = @ + 1]
    /\ UNCHANGED <<today, probe, db_loaded_date, spx_last>>

LoopFloorSection ==
    \E read_ok \in BOOLEAN, send_ok \in BOOLEAN :
       \E section_alerts \in LoopBatchesFloor(FLOOR_CONFIG_LIST[loop.section]) :
        LoopFloorSectionOn(read_ok, section_alerts, send_ok)

\* check_spx_0dte_signal(cfg, dry_run=first_run) inside try / except Exception.
LoopSpxOn(read_ok, data) ==
    /\ loop.pc = "spx"
    /\ spx_last' = IF read_ok
                   THEN check_signal(data, spx_last, loop.first_run).last_seen
                   ELSE spx_last
    /\ cyc' = [cyc EXCEPT !.ran = Append(@, "spx")]
    /\ loop' = [loop EXCEPT !.pc = "end"]
    /\ UNCHANGED <<dedupVars, db_loaded_date>>

LoopSpx == \E read_ok \in BOOLEAN, data \in SpxCells : LoopSpxOn(read_ok, data)

\* End of the cycle: after the first one sys.argv loses --dry-run.
LoopEndCycle ==
    /\ loop.pc = "end"
    /\ loop' = [loop EXCEPT !.pc = "sleep", !.first_run = FALSE, !.argv_dry = FALSE]
    /\ UNCHANGED <<dedupVars, db_loaded_date, spx_last, cyc>>

NextLoop ==
    \/ LoopNight /\ UNCHANGED <<storeVars, refreshVars, multiVars, floorVars, evalVars>>
    \/ LoopWake /\ UNCHANGED <<storeVars, refreshVars, multiVars, floorVars, evalVars>>
    \/ LoopLoadDb /\ UNCHANGED <<storeVars, refreshVars, multiVars, floorVars, evalVars>>
    \/ Loop7Dte /\ UNCHANGED <<storeVars, refreshVars, multiVars, floorVars, evalVars>>
    \/ LoopFloorSection /\ UNCHANGED <<storeVars, refreshVars, multiVars, floorVars, evalVars>>
    \/ LoopSpx /\ UNCHANGED <<storeVars, refreshVars, multiVars, floorVars, evalVars>>
    \/ LoopEndCycle /\ UNCHANGED <<storeVars, refreshVars, multiVars, floorVars, evalVars>>

SpecLoop == InitLoop /\ [][NextLoop]_vars

\* The loop on the day of its first market-hours cycle (the cycles of one
\* day: no night passes), with a record, in pf, of the first cycle and of
\* what the later cycles did with it: the day of the first cycle, the candidates
\* its engines handed to filter_new_alerts (cands) and the signal it read
\* (first_spx, kept until the cycle ends), whether the transport was called
\* in it (first_sent); and of the later cycles whether one offered a
\* candidate of cands again on that day (offered_again), whether a message
\* sent on that day held one (redelivered) and whether one ran an engine in
\* dry-run (dry_later).
NoSignal == "<none>"

SeedIdle ==
    [day |-> -1, cands |-> {}, first_spx |-> NoSignal, first_sent |-> FALSE,
     offered_again |-> FALSE, redelivered |-> FALSE, dry_later |-> FALSE]

\* The record after an engine run of the namespace ns that offered the keys
\* `offered`, sent (or not) a message of the keys `message`, under dry-run
\* or not.
SeedTrack(ns, offered, message, sent, dry) ==
    LET t == pf.result
    IN  IF loop.first_run
        THEN [t EXCEPT !.day = today,
                       !.cands = t.cands \cup { <<ns, k>> : k \in offered },
                       !.first_sent = t.first_sent \/ sent]
        ELSE [t EXCEPT !.offered_again = t.offered_again
                            \/ (today = t.day /\ \E k \in offered : <<ns, k>> \in t.cands),
                       !.redelivered = t.redelivered
                            \/ (/\ sent /\ today = t.day
                                /\ \E k \in message : <<ns, k>> \in t.cands),
                       !.dry_later = t.dry_later \/ dry]

InitSeed ==
    /\ LoopIdle /\ StoreIdle /\ RefreshIdle /\ MultiIdle /\ FloorIdle
    /\ today = 0
    /\ files = [ns \in StateFiles |-> NoFile]
    /\ probe = NoProbe
    /\ obs = ObsIdle
    /\ al = AlIdle
    /\ pf = [fn |-> "run_monitor_loop.main", args |-> <<>>, done |-> FALSE,
             result |-> SeedIdle]

Seed7Dte ==
    \E read_ok \in BOOLEAN, all_alerts \in LoopBatches7Day, send_ok \in BOOLEAN :
        LET res == monitor_7day_report(all_alerts, files[STATE_FILE_7DAY], today,
                                       loop.argv_dry, send_ok)
        IN  /\ Loop7DteOn(read_ok, all_alerts, send_ok)
            /\ pf' = IF ~read_ok THEN pf
                     ELSE [pf EXCEPT !.result =
                            SeedTrack(STATE_FILE_7DAY, Range(KeySeq7Day(all_alerts)),
                                      Range(KeySeq7Day(res.message)), res.sent,
                                      loop.argv_dry)]

SeedFloorSection ==
    \E read_ok \in BOOLEAN, send_ok \in BOOLEAN :
       \E section_alerts \in LoopBatchesFloor(FLOOR_CONFIG_LIST[loop.section]) :
        LET res == floor_section(section_alerts, files[STATE_FILE], today,
                                 loop.argv_dry, send_ok)
        IN  /\ LoopFloorSectionOn(read_ok, section_alerts, send_ok)
            /\ pf' = IF ~read_ok THEN pf
                     ELSE [pf EXCEPT !.result =
                            SeedTrack(STATE_FILE, Range(KeySeqFloor(section_alerts)),
                                      Range(KeySeqFloor(res.message)), res.sent,
                                      loop.argv_dry)]

SeedSpx ==
    \E read_ok \in BOOLEAN, data \in SpxCells :
        LET r == check_signal(data, spx_last, loop.first_run)
            t == pf.result
        IN  /\ LoopSpxOn(read_ok, data)
            /\ pf' = IF ~read_ok THEN pf
                     ELSE IF loop.first_run
                     THEN [pf EXCEPT !.result =
                            [t EXCEPT !.day = today,
                                      !.first_spx = IF HasCell(data) THEN value_clean_of(data)
                                                    ELSE NoSignal,
                                      !.first_sent = t.first_sent \/ r.sent]]
                     ELSE [pf EXCEPT !.result =
                            [t EXCEPT !.dry_later = t.dry_later \/ loop.first_run]]

SeedEndCycle ==
    /\ LoopEndCycle
    /\ pf' = [pf EXCEPT !.result = [pf.result EXCEPT !.first_spx = NoSignal]]

NextSeed ==
    \/ LoopWake /\ UNCHANGED <<storeVars, refreshVars, multiVars, floorVars, evalVars>>
    \/ LoopLoadDb /\ UNCHANGED <<storeVars, refreshVars, multiVars, floorVars, evalVars>>
    \/ Seed7Dte /\ UNCHANGED <<storeVars, refreshVars, multiVars, floorVars, al>>
    \/ SeedFloorSection /\ UNCHANGED <<storeVars, refreshVars, multiVars, floorVars, al>>
    \/ SeedSpx /\ UNCHANGED <<storeVars, refreshVars, multiVars, floorVars, al>>
    \/ SeedEndCycle /\ UNCHANGED <<storeVars, refreshVars, multiVars, floorVars, al>>

SpecSeed == InitSeed /\ [][NextSeed]_vars

-----------------------------------------------------------------------------
(* The record store: tools/unified_db.py *)

\* Two of the six sections of unified_db.FLOOR_CONFIGS.
UNIFIED_FLOOR_CONFIGS == {"Floor_SPX_0DTE", "Floor_All"}

SourceNames == {"allDay", "7Day", "Floor"}

\* The values of the column `source` that the loader of a source writes.
StoredSources(name) ==
    IF name = "Floor" THEN UNIFIED_FLOOR_CONFIGS ELSE {name}

StoredSourcesOf(sources) == UNION { StoredSources(n) : n \in sources }

\* What _load_allday / _load_7day / _load_floor can parse: at most one
\* entry per stored source.
EntriesOf(sources) ==
    { [source |-> src, ticker |-> "SPY"] : src \in StoredSourcesOf(sources) }

\* The rows an executemany INSERT writes: the entries with loaded_date = today.
inserted_rows(entries, d) ==
    { [source |-> e.source, ticker |-> e.ticker, loaded_date |-> d] : e \in entries }

\* _insert_entries, committed: DELETE (the filtered source, or all rows when
\* source_filter is None, written ""), INSERT, loaded_date, in one transaction.
insert_entries(db, entries, source_filter, d) ==
    [rows |-> (IF source_filter # ""
               THEN { r \in db.rows : r.source # source_filter }
               ELSE {})
              \cup inserted_rows(entries, d),
     loaded_date |-> d]

\* The source_filter load_all passes on: the source when exactly one is
\* loaded, else None.
source_filter_of(sources) ==
    IF Cardinality(sources) = 1 THEN CHOOSE n \in sources : TRUE ELSE ""

\* The first commit of load_all(sources=["Floor"]): the DELETE per section.
floor_delete(db) ==
    [rows |-> { r \in db.rows : r.source \notin UNIFIED_FLOOR_CONFIGS },
     loaded_date |-> db.loaded_date]

\* The second commit of load_all(sources=["Floor"]): INSERT and loaded_date.
floor_insert(db, entries, d) ==
    [rows |-> db.rows \cup inserted_rows(entries, d), loaded_date |-> d]

RowsOf(rows, stored) == { r \in rows : r.source \in stored }
Unstamped(rows) == { [source |-> r.source, ticker |-> r.ticker] : r \in rows }

\* ld after a load of `sources` with `entries` that began on `before` and
\* left `after`.
LoadObserved(sources, entries, before, after, outcome, d) ==
    [sources |-> sources, outcome |-> outcome,
     intact |-> after = before,
     exact |-> RowsOf(after.rows, StoredSourcesOf(sources)) = inserted_rows(entries, d),
     others |-> RowsOf(after.rows, StoredSourcesOf(SourceNames \ sources))
                  = RowsOf(before.rows, StoredSourcesOf(SourceNames \ sources))]

InitStore ==
    /\ LoopIdle /\ StoreIdle /\ RefreshIdle /\ MultiIdle /\ FloorIdle /\ EvalIdle
    /\ today = 0
    /\ files = [ns \in StateFiles |-> NoFile]
    /\ probe = NoProbe
    /\ obs = ObsIdle

\* load_all(sources) for anything but ["Floor"]: the sheets are read, then
\* _insert_entries either commits or raises (and the connection's open
\* transaction is rolled back when it is closed).
LoadAll ==
    /\ w.pc = "idle"
    /\ \E sources \in (SUBSET SourceNames) \ {{}, {"Floor"}}, insert_ok \in BOOLEAN :
       \E all_entries \in SUBSET EntriesOf(sources) :
        LET after == IF insert_ok
                     THEN insert_entries(udb, all_entries, source_filter_of(sources), today)
                     ELSE udb
        IN  /\ udb' = after
            /\ ld' = LoadObserved(sources, all_entries, udb, after,
                                  IF insert_ok THEN "ok" ELSE "raised", today)
    /\ UNCHANGED <<w, rd>>

\* load_all(sources) in which reading a sheet raises: no connection to
\* unified.db has been opened yet.
LoadSheetFails ==
    /\ w.pc = "idle"
    /\ \E sources \in (SUBSET SourceNames) \ {{}} :
        ld' = LoadObserved(sources, {}, udb, udb, "raised", today)
    /\ UNCHANGED <<udb, w, rd>>

\* load_all(sources=["Floor"]) up to its first conn.commit(): the Floor
\* sheets are read and the rows of every Floor section are deleted.
LoadFloorDelete ==
    /\ w.pc = "idle"
    /\ \E all_entries \in SUBSET EntriesOf({"Floor"}) :
        w' = [pc |-> "floor_deleted", entries |-> all_entries, before |-> udb]
    /\ udb' = floor_delete(udb)
    /\ ld' = [sources |-> {"Floor"}, outcome |-> "running", intact |-> TRUE,
              exact |-> TRUE, others |-> TRUE]
    /\ UNCHANGED rd

\* load_all(sources=["Floor"]) from the second connection on: the INSERT and
\* loaded_date commit, or the INSERT raises.
LoadFloorInsert ==
    /\ w.pc = "floor_deleted"
    /\ \E insert_ok \in BOOLEAN :
        LET after == IF insert_ok THEN floor_insert(udb, w.entries, today) ELSE udb
        IN  /\ udb' = after
            /\ ld' = LoadObserved({"Floor"}, w.entries, w.before, after,
                                  IF insert_ok THEN "ok" ELSE "raised", today)
    /\ w' = [pc |-> "idle", entries |-> {}, before |-> [rows |-> {}, loaded_date |-> -1]]
    /\ UNCHANGED rd

\* A query on its own connection (query_net_flow, the dashboard's
\* endpoints): it sees the committed rows.  During a load, the rows of the
\* sources being loaded should be the prior ones or the new ones.
ReadStore ==
    /\ LET stored == StoredSourcesOf(ld.sources)
           cur == Unstamped(RowsOf(udb.rows, stored))
       IN  rd' = [during |-> w.pc # "idle",
                  partial |-> /\ w.pc # "idle"
                              /\ cur # Unstamped(RowsOf(w.before.rows, stored))
                              /\ cur # w.entries]
    /\ UNCHANGED <<udb, w, ld>>

NextStore ==
    \/ DayChange /\ UNCHANGED <<loopVars, storeVars, refreshVars, multiVars, floorVars, evalVars>>
    \/ LoadAll /\ UNCHANGED <<dedupVars, loopVars, refreshVars, multiVars, floorVars, evalVars>>
    \/ LoadSheetFails /\ UNCHANGED <<dedupVars, loopVars, refreshVars, multiVars, floorVars, evalVars>>
    \/ LoadFloorDelete /\ UNCHANGED <<dedupVars, loopVars, refreshVars, multiVars, floorVars, evalVars>>
    \/ LoadFloorInsert /\ UNCHANGED <<dedupVars, loopVars, refreshVars, multiVars, floorVars, evalVars>>
    \/ ReadStore /\ UNCHANGED <<dedupVars, loopVars, refreshVars, multiVars, floorVars, evalVars>>

SpecStore == InitStore /\ [][NextStore]_vars

-----------------------------------------------------------------------------
(* The dashboard's refresh: web/app.py *)

\* refresh_db's test of the flag with the flag ignored.
refresh_guard_off(status) == FALSE

\* refresh_db's test `if _refresh_status["running"]`.
refresh_guard(status) == status.running

\* The background threads that have not left _run_refresh.
ActiveRefreshes == { t \in 1..Len(rf.threads) : rf.threads[t] # "exited" }

InitRefresh ==
    /\ LoopIdle /\ StoreIdle /\ RefreshIdle /\ MultiIdle /\ FloorIdle /\ EvalIdle
    /\ today = 0
    /\ files = [ns \in StateFiles |-> NoFile]
    /\ probe = NoProbe
    /\ obs = ObsIdle

\* A POST /api/refresh arrives and its handler begins.
RefreshRequest(i) ==
    /\ rf.h[i].pc \in {"idle", "done"}
    /\ rf.served < MaxRequests
    /\ rf' = [rf EXCEPT !.served = @ + 1,
                        !.h[i] = [HandlerIdle EXCEPT !.pc = "with"]]

\* with _refresh_lock: the handler takes the lock.
RefreshAcquire(i) ==
    /\ rf.h[i].pc = "with"
    /\ rf.lock = 0
    /\ rf' = [rf EXCEPT !.lock = i, !.h[i].pc = "if"]

\* if _refresh_status["running"]: return already_running (the lock is
\* released as the with block is left).
RefreshCheck(i) ==
    /\ rf.h[i].pc = "if"
    /\ IF refresh_guard(rf)
       THEN rf' = [rf EXCEPT !.lock = 0,
                             !.h[i] = [pc |-> "done", saw |-> TRUE,
                                       ret |-> "already_running", started |-> 0]]
       ELSE rf' = [rf EXCEPT !.h[i].pc = "set"]

\* _refresh_status["running"] = True, and the with block ends.
RefreshSet(i) ==
    /\ rf.h[i].pc = "set"
    /\ rf' = [rf EXCEPT !.running = TRUE, !.lock = 0, !.h[i].pc = "start"]

\* t.start() and return started.
RefreshStart(i) ==
    /\ rf.h[i].pc = "start"
    /\ rf' = [rf EXCEPT !.threads = Append(@, "init_db"),
                        !.h[i] = [pc |-> "done", saw |-> FALSE,
                                  ret |-> "started", started |-> 1]]

\* _run_refresh: init_db() returns or raises.
ThreadInitDb(t) ==
    /\ rf.threads[t] = "init_db"
    /\ \E ok \in BOOLEAN :
        rf' = IF ok THEN [rf EXCEPT !.threads[t] = "load_all"]
              ELSE [rf EXCEPT !.threads[t] = "finally", !.last_error = "error"]

\* _run_refresh without try / finally: an exception of load_all ends the
\* thread.
ThreadLoadAllEndsOnError(t) ==
    /\ rf.threads[t] = "load_all"
    /\ \E ok \in BOOLEAN :
        rf' = IF ok
              THEN [rf EXCEPT !.threads[t] = "finally",
                              !.last_result = t, !.last_error = "None"]
              ELSE [rf EXCEPT !.threads[t] = "exited"]

\* _run_refresh: load_all() returns a count and the result is stored, or it
\* raises and the error is stored.
ThreadLoadAll(t) ==
    /\ rf.threads[t] = "load_all"
    /\ \E ok \in BOOLEAN :
        rf' = IF ok
              THEN [rf EXCEPT !.threads[t] = "finally",
                              !.last_result = t, !.last_error = "None"]
              ELSE [rf EXCEPT !.threads[t] = "finally", !.last_error = "error"]

\* _run_refresh: finally, running = False, and the thread ends.
ThreadFinally(t) ==
    /\ rf.threads[t] = "finally"
    /\ rf' = [rf EXCEPT !.threads[t] = "exited", !.running = FALSE]

RefreshFrame == UNCHANGED <<dedupVars, loopVars, storeVars, multiVars, floorVars, evalVars>>

NextRefresh ==
    \/ \E i \in Handlers : RefreshRequest(i) /\ RefreshFrame
    \/ \E i \in Handlers : RefreshAcquire(i) /\ RefreshFrame
    \/ \E i \in Handlers : RefreshCheck(i) /\ RefreshFrame
    \/ \E i \in Handlers : RefreshSet(i) /\ RefreshFrame
    \/ \E i \in Handlers : RefreshStart(i) /\ RefreshFrame
    \/ \E t \in 1..Len(rf.threads) : ThreadInitDb(t) /\ RefreshFrame
    \/ \E t \in 1..Len(rf.threads) : ThreadLoadAll(t) /\ RefreshFrame
    \/ \E t \in 1..Len(rf.threads) : ThreadFinally(t) /\ RefreshFrame

SpecRefresh == InitRefresh /\ [][NextRefresh]_vars

\* A step of the t-th background thread.
ThreadStep(t) ==
    /\ t \in 1..Len(rf.threads)
    /\ ThreadInitDb(t) \/ ThreadLoadAll(t) \/ ThreadFinally(t)
    /\ RefreshFrame

\* The dashboard with threads that go on: a started thread is scheduled, and
\* init_db and load_all return or raise.
SpecRefreshFair ==
    SpecRefresh /\ \A t \in 1..MaxRequests : WF_vars(ThreadStep(t))

-----------------------------------------------------------------------------
(* Multi-source confirmation and opposite orders: tools/multi_source_check.py *)

Tickers == {"AAPL", "TSLA"}
SortedTickers == <<"AAPL", "TSLA">>

\* The names bound in the module multi_source_check when its functions run:
\* its imports, its one constant and its own functions.
ModuleGlobals ==
    {"os", "sys", "json", "hashlib", "argparse", "datetime", "ZoneInfo",
     "read_sheet", "send_telegram", "parse_dollar", "parse_qty",
     "find_column_index", "safe_get", "format_number", "format_qty",
     "filter_new_alerts", "query_net_flow", "query_net_flow_by_expiry",
     "MULTI_SOURCE_STATE", "_parse_rows", "read_7day_entries",
     "read_floor_entries", "_ticker_direction", "check_multi_source",
     "_build_multi_source_message", "_row_seen_key", "check_opposite_orders",
     "_build_opposite_message", "main"}

\* The rows allday_orders can hold.
AlldayRows ==
    { [id |-> 1, ticker |-> "AAPL", side |-> "BUYING", insights |-> "bullish",
       call_qty |-> 1, call_dollar |-> 1, put_qty |-> 0, put_dollar |-> 0],
      [id |-> 2, ticker |-> "TSLA", side |-> "SELLING", insights |-> "bullish",
       call_qty |-> 0, call_dollar |-> 0, put_qty |-> 1, put_dollar |-> 1] }

\* Parsed rows of the 7Day sheet (_parse_rows): one contract at one dollar,
\* calls or puts, no strike.
Entries7Day ==
    { [side |-> sd, ticker |-> t, call_dollar |-> c, call_qty |-> c,
       put_dollar |-> 1 - c, put_qty |-> 1 - c, strike |-> ""] :
        sd \in {"BUYING", "SELLING"}, t \in Tickers, c \in {0, 1} }

\* Parsed rows of the Floor sheets.
EntriesFloor ==
    { [side |-> "Floor_All", ticker |-> t, call_dollar |-> c, call_qty |-> c,
       put_dollar |-> 1 - c, put_qty |-> 1 - c, strike |-> ""] :
        t \in Tickers, c \in {0, 1} }

\* entries_7day as check_* joins it: the buying rows, then the selling rows.
Feeds7Day ==
    { f \in SeqsUpTo(Entries7Day, MaxFeed) :
        \A i, j \in 1..Len(f) :
            i < j => ~(f[i].side = "SELLING" /\ f[j].side = "BUYING") }

FeedsFloor == SeqsUpTo(EntriesFloor, MaxFeed)

\* row_hash of _parse_rows: a digest of the cells of the row.
row_hash(e) == <<e.ticker, e.strike, e.call_qty, e.call_dollar, e.put_qty, e.put_dollar>>

\* _row_seen_key: side|row_hash.
row_seen_key(e) == <<e.side, row_hash(e)>>

\* _default_alert_key of monitor_utils.
default_alert_key(a) ==
    <<a.side, a.label, a.field, a.call_dollar, a.call_qty, a.put_dollar, a.put_qty>>

SumOver(entries, t, field) ==
    LET S[i \in 0..Len(entries)] ==
            IF i = 0 THEN 0
            ELSE S[i - 1] + (IF entries[i].ticker = t THEN entries[i][field] ELSE 0)
    IN  S[Len(entries)]

\* _ticker_direction: per ticker of the entries, the sums and the direction.
ticker_direction(entries) ==
    [t \in { entries[i].ticker : i \in 1..Len(entries) } |->
        LET cd == SumOver(entries, t, "call_dollar")
            pd == SumOver(entries, t, "put_dollar")
        IN  [call_dollar |-> cd, put_dollar |-> pd,
             call_qty |-> SumOver(entries, t, "call_qty"),
             put_qty |-> SumOver(entries, t, "put_qty"),
             direction |-> IF cd > pd THEN "BULLISH"
                           ELSE IF pd > cd THEN "BEARISH"
                           ELSE "NEUTRAL"]]

RECURSIVE SumRows(_, _)
SumRows(rows, field) ==
    IF rows = {} THEN 0
    ELSE LET r == CHOOSE x \in rows : TRUE
         IN  r[field] + SumRows(rows \ {r}, field)

\* LOWER(insights) LIKE '%word%'
insights_like(insights, word) == contains(lower(insights), word)

\* allday_db.query_net_flow: the aggregate row always exists, so the result
\* is always a dict, with these seven keys.  The two CASE tests are made on
\* every row of the ticker.
query_net_flow(rows, ticker) ==
    LET bull == { r \in rows : r.ticker = ticker /\ insights_like(r.insights, "bullish") }
        bear == { r \in rows : r.ticker = ticker /\ insights_like(r.insights, "bearish") }
        bullish == SumRows(bull, "call_dollar") + SumRows(bull, "put_dollar")
        bearish == SumRows(bear, "call_dollar") + SumRows(bear, "put_dollar")
    IN  [bullish_dollar |-> bullish, bearish_dollar |-> bearish,
         bullish_qty |-> SumRows(bull, "call_qty") + SumRows(bull, "put_qty"),
         bearish_qty |-> SumRows(bear, "call_qty") + SumRows(bear, "put_qty"),
         bullish_count |-> Cardinality(bull), bearish_count |-> Cardinality(bear),
         direction |-> IF bullish > bearish THEN "BULLISH"
                       ELSE IF bearish > bullish THEN "BEARISH"
                       ELSE "NEUTRAL"]

\* allday_db.query_opposite_orders for an entry without strike: the rows of
\* the ticker on the opposite side with the same positive call or put qty.
query_opposite_orders(rows, ticker, opposite_side, call_qty, put_qty) ==
    { r \in rows :
        /\ r.ticker = ticker /\ r.side = opposite_side
        /\ \/ call_qty > 0 /\ r.call_qty = call_qty
           \/ put_qty > 0 /\ r.put_qty = put_qty }

\* The for loop of check_multi_source over sorted(common_tickers): the
\* confirmations appended, until a subscript of net_flow raises KeyError.
confirmations_loop(dir_7day, dir_floor, rows) ==
    LET common_tickers == DOMAIN dir_7day \cap DOMAIN dir_floor
        G[i \in 0..Len(SortedTickers)] ==
            IF i = 0 THEN [raised |-> "", confirmations |-> <<>>, queried |-> <<>>]
            ELSE LET p == G[i - 1]
                     ticker == SortedTickers[i]
                     d7 == dir_7day[ticker]
                     df == dir_floor[ticker]
                     net_flow == query_net_flow(rows, ticker)
                 IN  IF p.raised # "" \/ ticker \notin common_tickers THEN p
                     ELSE IF d7.direction = "NEUTRAL" \/ df.direction = "NEUTRAL" THEN p
                     ELSE IF "net_call_dollar" \notin DOMAIN net_flow
                     THEN [p EXCEPT !.raised = "KeyError", !.queried = Append(@, ticker)]
                     ELSE IF "net_put_dollar" \notin DOMAIN net_flow
                     THEN [p EXCEPT !.raised = "KeyError", !.queried = Append(@, ticker)]
                     ELSE IF d7.direction = df.direction
                     THEN [p EXCEPT !.queried = Append(@, ticker), !.confirmations =
                             Append(@, [ticker |-> ticker, direction |-> d7.direction,
                                        side |-> d7.direction, label |-> ticker,
                                        field |-> "multi_source",
                                        call_dollar |-> d7.call_dollar + df.call_dollar,
                                        call_qty |-> d7.call_qty + df.call_qty,
                                        put_dollar |-> d7.put_dollar + df.put_dollar,
                                        put_qty |-> d7.put_qty + df.put_qty])]
                     ELSE [p EXCEPT !.queried = Append(@, ticker)]
    IN  G[Len(SortedTickers)]

\* filter_new_alerts of monitor_utils with the default key.
filter_new_alerts_default(alerts, file, d) ==
    LET state == load_state(file, d)
        r == filter_loop(alerts, [i \in 1..Len(alerts) |-> default_alert_key(alerts[i])],
                         state.seen)
    IN  [new |-> r.new,
         file |-> save_state([date |-> state.date, seen |-> r.seen])]

\* check_multi_source: what it raised, the confirmations it built, the
\* state file it left and whether it sent a message.
check_multi_source(all_7day, all_floor, rows, file, d, dry_run) ==
    LET dir_7day == ticker_direction(all_7day)
        dir_floor == ticker_direction(all_floor)
        none == [raised |-> "", confirmations |-> <<>>, new |-> <<>>,
                 file |-> file, sent |-> FALSE, queried |-> <<>>]
    IN  IF DOMAIN dir_7day \cap DOMAIN dir_floor = {} THEN none
        ELSE LET l == confirmations_loop(dir_7day, dir_floor, rows)
             IN  IF l.raised # ""
                 THEN [none EXCEPT !.raised = l.raised, !.queried = l.queried]
                 ELSE IF l.confirmations = <<>> THEN [none EXCEPT !.queried = l.queried]
                 ELSE LET r == filter_new_alerts_default(l.confirmations, file, d)
                      IN  [raised |-> "", confirmations |-> l.confirmations,
                           new |-> r.new, file |-> r.file,
                           sent |-> r.new # <<>> /\ ~dry_run,
                           queried |-> l.queried]

\* The tickers for which a confirmation is due: in both feeds, both
\* directions not NEUTRAL and equal.
AlignedTickers(all_7day, all_floor) ==
    LET dir_7day == ticker_direction(all_7day)
        dir_floor == ticker_direction(all_floor)
    IN  { t \in DOMAIN dir_7day \cap DOMAIN dir_floor :
            /\ dir_7day[t].direction # "NEUTRAL"
            /\ dir_7day[t].direction = dir_floor[t].direction }

\* check_opposite_orders without the return on an empty all_rows: it goes
\* on to load_state(ROWS_SEEN_STATE).
check_opposite_orders_unguarded(all_rows, rows, files_, d, dry_run) ==
    [raised |-> IF "ROWS_SEEN_STATE" \notin ModuleGlobals THEN "NameError" ELSE "",
     files |-> files_, queried |-> <<>>, sent |-> FALSE]

\* check_opposite_orders: what it raised, the two state files as it left
\* them, and the keys of the rows it queried allday.db for.
check_opposite_orders(all_rows, rows, files_, d, dry_run) ==
    LET none == [raised |-> "", files |-> files_, queried |-> <<>>, sent |-> FALSE]
    IN  IF all_rows = <<>> THEN none
        ELSE IF "ROWS_SEEN_STATE" \notin ModuleGlobals
        THEN [none EXCEPT !.raised = "NameError"]
        ELSE
        LET state == load_state(files_["ROWS_SEEN_STATE"], d)
            keys == [i \in 1..Len(all_rows) |-> row_seen_key(all_rows[i])]
            r == filter_loop(all_rows, keys, state.seen)
            saved == [files_ EXCEPT !["ROWS_SEEN_STATE"] =
                        save_state([date |-> state.date, seen |-> r.seen])]
            queried == [i \in 1..Len(r.new) |-> row_seen_key(r.new[i])]
            matched == SelectSeq(r.new, LAMBDA e :
                          query_opposite_orders(rows, e.ticker,
                              IF e.side = "BUYING" THEN "SELLING" ELSE "BUYING",
                              e.call_qty, e.put_qty) # {})
            matches == [i \in 1..Len(matched) |->
                          [side |-> matched[i].side, label |-> row_hash(matched[i]),
                           field |-> "opposite",
                           call_dollar |-> matched[i].call_dollar,
                           call_qty |-> matched[i].call_qty,
                           put_dollar |-> matched[i].put_dollar,
                           put_qty |-> matched[i].put_qty]]
        IN  IF r.new = <<>> THEN [none EXCEPT !.files = saved]
            ELSE IF "query_opposite_orders" \notin ModuleGlobals
            THEN [none EXCEPT !.raised = "NameError"]
            ELSE IF matches = <<>>
            THEN [none EXCEPT !.files = saved, !.queried = queried]
            ELSE IF "OPPOSITE_ORDER_STATE" \notin ModuleGlobals
            THEN [none EXCEPT !.raised = "NameError", !.files = saved,
                              !.queried = queried]
            ELSE LET f == filter_new_alerts_default(matches,
                              saved["OPPOSITE_ORDER_STATE"], d)
                 IN  [raised |-> "",
                      files |-> [saved EXCEPT !["OPPOSITE_ORDER_STATE"] = f.file],
                      queried |-> queried,
                      sent |-> f.new # <<>> /\ ~dry_run]

InitMulti ==
    /\ LoopIdle /\ StoreIdle /\ RefreshIdle /\ MultiIdle /\ FloorIdle /\ EvalIdle
    /\ today = 0
    /\ files = [ns \in StateFiles |-> NoFile]
    /\ probe = NoProbe
    /\ obs = ObsIdle

\* The calendar date changes between two runs.
MultiDayChange ==
    /\ DayChange
    /\ ms' = MsIdle
    /\ UNCHANGED <<allday, mstate>>

\* load_allday_to_db replaces the rows of allday_orders.
AlldayLoad ==
    /\ allday' \in SUBSET AlldayRows
    /\ UNCHANGED <<mstate, ms>>

\* A run of check_multi_source on the feeds just read.
CheckMultiSourceOn(feeds_7day, feeds_floor) ==
    \E all_7day \in feeds_7day, all_floor \in feeds_floor, dry_run \in BOOLEAN :
        LET res == check_multi_source(all_7day, all_floor, allday,
                                      mstate[MULTI_SOURCE_STATE], today, dry_run)
        IN  /\ mstate' = [mstate EXCEPT ![MULTI_SOURCE_STATE] = res.file]
            /\ ms' = [op |-> "multi", raised |-> res.raised,
                      aligned |-> AlignedTickers(all_7day, all_floor),
                      cands |-> [i \in 1..Len(res.confirmations) |->
                                    res.confirmations[i].ticker],
                      keys |-> {}, queried |-> res.queried,
                      no7 |-> all_7day = <<>>, nofloor |-> all_floor = <<>>,
                      sent |-> res.sent]
            /\ UNCHANGED allday

CheckMultiSource == CheckMultiSourceOn(Feeds7Day, FeedsFloor)

\* A run of check_opposite_orders on the 7Day feed just read.
CheckOppositeOrdersOn(feeds_7day) ==
    \E all_rows \in feeds_7day, dry_run \in BOOLEAN :
        LET res == check_opposite_orders(all_rows, allday, mstate, today, dry_run)
        IN  /\ mstate' = res.files
            /\ ms' = [op |-> "opposite", raised |-> res.raised,
                      aligned |-> {}, cands |-> <<>>,
                      keys |-> { row_seen_key(all_rows[i]) : i \in 1..Len(all_rows) },
                      queried |-> res.queried,
                      no7 |-> all_rows = <<>>, nofloor |-> FALSE, sent |-> res.sent]
            /\ UNCHANGED allday

CheckOppositeOrders == CheckOppositeOrdersOn(Feeds7Day)

NextMulti ==
    \/ MultiDayChange /\ UNCHANGED <<loopVars, storeVars, refreshVars, floorVars, evalVars>>
    \/ AlldayLoad /\ UNCHANGED <<dedupVars, loopVars, storeVars, refreshVars, floorVars, evalVars>>
    \/ CheckMultiSource /\ UNCHANGED <<dedupVars, loopVars, storeVars, refreshVars, floorVars, evalVars>>
    \/ CheckOppositeOrders /\ UNCHANGED <<dedupVars, loopVars, storeVars, refreshVars, floorVars, evalVars>>

SpecMulti == InitMulti /\ [][NextMulti]_vars

\* The same runs on feeds of at most MaxShortFeed rows.
ShortFeeds7Day ==
    { f \in SeqsUpTo(Entries7Day, MaxShortFeed) :
        \A i, j \in 1..Len(f) :
            i < j => ~(f[i].side = "SELLING" /\ f[j].side = "BUYING") }
ShortFeedsFloor == SeqsUpTo({e \in EntriesFloor : e.ticker = "AAPL"}, MaxShortFeed)

NextReconcile ==
    \/ MultiDayChange /\ UNCHANGED <<loopVars, storeVars, refreshVars, floorVars, evalVars>>
    \/ AlldayLoad /\ UNCHANGED <<dedupVars, loopVars, storeVars, refreshVars, floorVars, evalVars>>
    \/ CheckMultiSourceOn(ShortFeeds7Day, ShortFeedsFloor)
            /\ UNCHANGED <<dedupVars, loopVars, storeVars, refreshVars, floorVars, evalVars>>
    \/ CheckOppositeOrdersOn(ShortFeeds7Day)
            /\ UNCHANGED <<dedupVars, loopVars, storeVars, refreshVars, floorVars, evalVars>>

SpecReconcile == InitMulti /\ [][NextReconcile]_vars

-----------------------------------------------------------------------------
(* A run of the novelty engine: tools/monitor_floor_alerts.py main *)

\* What config.json can hold for a section: nothing, or an entry whose
\* "range" is missing, or a range string.  A range string is held as the
\* parts that split(":") gives once the spaces are removed.
NoSection == [present |-> FALSE, has_range |-> FALSE, range |-> <<>>]

SectionCfgs ==
    { NoSection,
      [present |-> TRUE, has_range |-> FALSE, range |-> <<>>],
      [present |-> TRUE, has_range |-> TRUE, range |-> <<"A4", "K29">>],
      [present |-> TRUE, has_range |-> TRUE, range |-> <<"a4", "k29">>],
      [present |-> TRUE, has_range |-> TRUE, range |-> <<"A4">>] }

\* re.match(r"([A-Z]+)(\d+)", part) on the parts above.
re_match_col_row(part) == part \in {"A4", "K29"}

\* Lines 192-209 of main for one section: "absent" and "skip" continue with
\* the next section, KeyError (sheet_cfg["range"]) and IndexError
\* (split(":")[1]) leave main, "read" goes on to read the sheet.
section_range(sheet_cfg) ==
    IF ~sheet_cfg.present THEN "absent"
    ELSE IF ~sheet_cfg.has_range THEN "KeyError"
    ELSE IF Len(sheet_cfg.range) < 2 THEN "IndexError"
    ELSE IF ~re_match_col_row(sheet_cfg.range[1]) \/ ~re_match_col_row(sheet_cfg.range[2])
    THEN "skip"
    ELSE "read"

FloorSections == 1..Len(FLOOR_CONFIG_LIST)

InitFloor ==
    /\ LoopIdle /\ StoreIdle /\ RefreshIdle /\ MultiIdle /\ FloorIdle /\ EvalIdle
    /\ today = 0
    /\ files = [ns \in StateFiles |-> NoFile]
    /\ probe = NoProbe
    /\ obs = ObsIdle

\* main begins: argparse, and config.json is loaded.
FloorMainStart ==
    /\ fr.pc \in {"idle", "returned", "raised"}
    /\ \E config \in [FloorSections -> SectionCfgs], dry_run \in BOOLEAN :
        fr' = [pc |-> "section", config |-> config, section |-> 1,
               dry_run |-> dry_run, processed |-> {}, skipped |-> {}, raised |-> ""]
    /\ UNCHANGED dedupVars

\* One iteration of `for cfg_name in FLOOR_CONFIGS`.
FloorMainSection ==
    /\ fr.pc = "section"
    /\ LET cfg_name == FLOOR_CONFIG_LIST[fr.section]
           how == section_range(fr.config[fr.section])
           next_pc == IF fr.section = Len(FLOOR_CONFIG_LIST) THEN "returned" ELSE "section"
           next_section == IF fr.section = Len(FLOOR_CONFIG_LIST) THEN fr.section
                           ELSE fr.section + 1
       IN  IF how \in {"KeyError", "IndexError"}
           THEN /\ fr' = [fr EXCEPT !.pc = "raised", !.raised = how]
                /\ UNCHANGED dedupVars
           ELSE IF how \in {"absent", "skip"}
           THEN /\ fr' = [fr EXCEPT !.pc = next_pc, !.section = next_section,
                                    !.skipped = @ \cup {cfg_name}]
                /\ UNCHANGED dedupVars
           ELSE \E read_ok \in BOOLEAN, send_ok \in BOOLEAN :
                \E section_alerts \in LoopBatchesFloor(cfg_name) :
                  LET res == floor_section(section_alerts, files[STATE_FILE], today,
                                           fr.dry_run, send_ok)
                  IN  IF ~read_ok
                      THEN /\ fr' = [fr EXCEPT !.pc = "raised", !.raised = "HttpError"]
                           /\ UNCHANGED dedupVars
                      ELSE /\ fr' = [fr EXCEPT !.pc = next_pc, !.section = next_section,
                                               !.processed = @ \cup {cfg_name}]
                           /\ files' = [files EXCEPT ![STATE_FILE] = res.file]
                           /\ UNCHANGED <<today, probe, obs>>

NextFloor ==
    \/ DayChange /\ UNCHANGED <<loopVars, storeVars, refreshVars, multiVars, floorVars, evalVars>>
    \/ FloorMainStart /\ UNCHANGED <<loopVars, storeVars, refreshVars, multiVars, evalVars>>
    \/ FloorMainSection /\ UNCHANGED <<loopVars, storeVars, refreshVars, multiVars, evalVars>>

SpecFloor == InitFloor /\ [][NextFloor]_vars

-----------------------------------------------------------------------------
(* The historical store: tools/allday_db.py *)

\* db_loaded_date when allday.db has no table allday_meta (init_db has not
\* run), and when the table has no row loaded_date.
NO_META_TABLE == -2
NO_LOADED_DATE == -1

\* is_db_loaded_today that only tests that the row exists.
is_db_loaded_ever(meta, d) ==
    IF meta = NO_META_TABLE THEN FALSE
    ELSE meta # NO_LOADED_DATE

\* is_db_loaded_today: the SELECT raises OperationalError without the table
\* (False); else the row exists and its value is str(date.today()).
is_db_loaded_today(meta, d) ==
    IF meta = NO_META_TABLE THEN FALSE
    ELSE meta # NO_LOADED_DATE /\ meta = d

InitAllday ==
    /\ StoreIdle /\ RefreshIdle /\ MultiIdle /\ FloorIdle /\ EvalIdle
    /\ loop = [pc |-> "sleep", first_run |-> TRUE, argv_dry |-> FALSE, section |-> 1]
    /\ db_loaded_date = NO_META_TABLE
    /\ spx_last = ""
    /\ cyc = [failed7 |-> FALSE, ran |-> <<>>, read_err |-> {}, processed |-> {}]
    /\ today = 0
    /\ files = [ns \in StateFiles |-> NoFile]
    /\ probe = NoProbe
    /\ obs = ObsIdle

\* The calendar date changes.
AlldayDayChange ==
    /\ DayChange
    /\ al' = [al EXCEPT !.fresh = FALSE]
    /\ UNCHANGED <<pf, allday, db_loaded_date>>

\* init_db: CREATE TABLE IF NOT EXISTS.
AlldayInitDb ==
    /\ db_loaded_date' = IF db_loaded_date = NO_META_TABLE THEN NO_LOADED_DATE
                         ELSE db_loaded_date
    /\ UNCHANGED <<dedupVars, pf, al, allday>>

\* load_allday_to_db up to the connection: today is taken, the two sides of
\* the sheet are read and parsed (or a read raises).
AlldayLoadRead ==
    /\ al.pc = "idle"
    /\ \E read_ok \in BOOLEAN, entries \in SUBSET AlldayRows :
        al' = IF read_ok
              THEN [al EXCEPT !.pc = "insert", !.today = today, !.entries = entries]
              ELSE al
    /\ UNCHANGED <<dedupVars, pf, allday, db_loaded_date>>

\* load_allday_to_db from the connection on: DELETE, INSERT and loaded_date
\* in one transaction; a statement that raises (no table, or a bad entry)
\* leaves the database as it was.
AlldayLoadInsert ==
    /\ al.pc = "insert"
    /\ \E insert_ok \in BOOLEAN :
        IF insert_ok /\ db_loaded_date # NO_META_TABLE
        THEN /\ allday' = al.entries
             /\ db_loaded_date' = al.today
             /\ al' = [al EXCEPT !.pc = "idle", !.entries = {},
                                 !.stamp = al.today, !.fresh = al.today = today]
        ELSE /\ al' = [al EXCEPT !.pc = "idle", !.entries = {}]
             /\ UNCHANGED <<allday, db_loaded_date>>
    /\ UNCHANGED <<dedupVars, pf>>

\* A call of is_db_loaded_today().
IsDbLoadedToday ==
    /\ pf' = [fn |-> "is_db_loaded_today", args |-> <<db_loaded_date, today>>,
              done |-> TRUE, result |-> is_db_loaded_today(db_loaded_date, today)]
    /\ UNCHANGED <<dedupVars, al, allday, db_loaded_date>>

AlldayFrame ==
    UNCHANGED <<loop, spx_last, cyc, storeVars, refreshVars, mstate, ms, floorVars>>

NextAllday ==
    \/ AlldayDayChange /\ AlldayFrame
    \/ AlldayInitDb /\ AlldayFrame
    \/ AlldayLoadRead /\ AlldayFrame
    \/ AlldayLoadInsert /\ AlldayFrame
    \/ IsDbLoadedToday /\ AlldayFrame

SpecAllday == InitAllday /\ [][NextAllday]_vars

-----------------------------------------------------------------------------
(* The loop's load of the historical store, once per day *)

\* "Load allDay data once per day" with the test left out.
load_every_cycle(meta, d, load_ok) ==
    IF load_ok THEN [called |-> TRUE, raised |-> FALSE, meta |-> d]
    ELSE [called |-> TRUE, raised |-> TRUE, meta |-> meta]

\* "Load allDay data once per day" of run_monitor_loop.main: nothing when
\* is_db_loaded_today(); else load_allday_to_db() is called, which writes
\* loaded_date when it succeeds (load_ok) and leaves the database as it was
\* when it raises; the Exception is caught and printed.
load_once_per_day(meta, d, load_ok) ==
    IF is_db_loaded_today(meta, d)
    THEN [called |-> FALSE, raised |-> FALSE, meta |-> meta]
    ELSE IF load_ok THEN [called |-> TRUE, raised |-> FALSE, meta |-> d]
    ELSE [called |-> TRUE, raised |-> TRUE, meta |-> meta]

\* What pf keeps of the load step of the latest cycle: the day, loaded_date
\* before it, whether load_allday_to_db was called and raised; the day of
\* the last load that had succeeded before it (ok_before), whether the load
\* of the cycle before it raised (prev_raised); and whether a load has been
\* called in the cycle after one that raised (retried).
DailyIdle ==
    [day |-> -1, before |-> NO_LOADED_DATE, called |-> FALSE, raised |-> FALSE,
     ok_before |-> -1, last_ok |-> -1, prev_raised |-> FALSE, retried |-> FALSE]

InitDaily ==
    /\ LoopIdle /\ StoreIdle /\ RefreshIdle /\ MultiIdle /\ FloorIdle
    /\ today = 0
    /\ files = [ns \in StateFiles |-> NoFile]
    /\ probe = NoProbe
    /\ obs = ObsIdle
    /\ al = AlIdle
    /\ pf = [fn |-> "run_monitor_loop.main", args |-> <<>>, done |-> FALSE,
             result |-> DailyIdle]

\* The load step of a cycle (lines 97-104).
DailyLoadDb ==
    /\ loop.pc = "db"
    /\ \E load_ok \in BOOLEAN :
        LET r == load_once_per_day(db_loaded_date, today, load_ok)
            t == pf.result
        IN  /\ ~r.called => load_ok
            /\ db_loaded_date' = r.meta
            /\ pf' = [pf EXCEPT
                        !.done = TRUE,
                        !.result = [day |-> today, before |-> db_loaded_date,
                                    called |-> r.called, raised |-> r.raised,
                                    ok_before |-> t.last_ok,
                                    last_ok |-> IF r.called /\ ~r.raised THEN today
                                                ELSE t.last_ok,
                                    prev_raised |-> t.raised,
                                    retried |-> t.retried \/ (t.raised /\ r.called)]]
    /\ loop' = [loop EXCEPT !.pc = "7dte"]
    /\ UNCHANGED <<dedupVars, spx_last, cyc>>

\* The engines of the cycle on sheets that hold no alert: their reads work
\* or raise.
Daily7Dte == \E read_ok \in BOOLEAN : Loop7DteOn(read_ok, <<>>, TRUE)

DailyFloorSection == \E read_ok \in BOOLEAN : LoopFloorSectionOn(read_ok, <<>>, TRUE)

NextDaily ==
    \/ LoopNight /\ UNCHANGED <<storeVars, refreshVars, multiVars, floorVars, evalVars>>
    \/ LoopWake /\ UNCHANGED <<storeVars, refreshVars, multiVars, floorVars, evalVars>>
    \/ DailyLoadDb /\ UNCHANGED <<storeVars, refreshVars, multiVars, floorVars, al>>
    \/ Daily7Dte /\ UNCHANGED <<storeVars, refreshVars, multiVars, floorVars, evalVars>>
    \/ DailyFloorSection /\ UNCHANGED <<storeVars, refreshVars, multiVars, floorVars, evalVars>>
    \/ LoopSpx /\ UNCHANGED <<storeVars, refreshVars, multiVars, floorVars, evalVars>>
    \/ LoopEndCycle /\ UNCHANGED <<storeVars, refreshVars, multiVars, floorVars, evalVars>>

SpecDaily == InitDaily /\ [][NextDaily]_vars

-----------------------------------------------------------------------------
(* allday_db.query_opposite_orders, with strike and expiry *)

\* A text whose characters the code looks at (strike) is the sequence of its
\* characters: "5.50" is <<"5", ".", "5", "0">>.
\* The rows the table allday_orders can hold in these evaluations.
OppositeOrders ==
    { [id |-> 1, side |-> "SELLING", ticker |-> "AAPL", call_qty |-> 500,
       put_qty |-> 0, strike |-> <<"5">>, xmonth |-> "1", xdate |-> "15"],
      [id |-> 2, side |-> "SELLING", ticker |-> "AAPL", call_qty |-> 0,
       put_qty |-> 500, strike |-> <<"5", ".", "5">>, xmonth |-> "1", xdate |-> "15"],
      [id |-> 3, side |-> "SELLING", ticker |-> "AAPL", call_qty |-> 500,
       put_qty |-> 500, strike |-> <<"5", ".", "0">>, xmonth |-> "1", xdate |-> "15"],
      [id |-> 4, side |-> "BUYING", ticker |-> "AAPL", call_qty |-> 500,
       put_qty |-> 0, strike |-> <<"5">>, xmonth |-> "1", xdate |-> "15"],
      [id |-> 5, side |-> "SELLING", ticker |-> "TSLA", call_qty |-> 500,
       put_qty |-> 500, strike |-> <<"5">>, xmonth |-> "1", xdate |-> "15"],
      [id |-> 6, side |-> "SELLING", ticker |-> "AAPL", call_qty |-> 0,
       put_qty |-> 0, strike |-> <<>>, xmonth |-> "", xdate |-> ""],
      [id |-> 7, side |-> "SELLING", ticker |-> "AAPL", call_qty |-> 700,
       put_qty |-> 0, strike |-> <<"5">>, xmonth |-> "1", xdate |-> "16"] }

\* The arguments of the evaluated calls.
OppositeSides == {"BUYING", "SELLING"}
OppositeQtys == {0, 500, 700}
OppositeStrikes ==
    { <<>>, <<"5">>, <<"5", ".", "0">>, <<"5", ".", "5", "0">>, <<"5", "0">> }
OppositeMonths == {"", "1"}
OppositeDays == {"", "15"}

\* str.rstrip(ch): every trailing ch removed.
RECURSIVE rstrip(_, _)
rstrip(str, ch) ==
    IF str = <<>> THEN str
    ELSE IF str[Len(str)] = ch THEN rstrip(SubSeq(str, 1, Len(str) - 1), ch)
    ELSE str

\* strike_norm that leaves the strike as it is.
strike_norm_identity(strike) == strike

\* strike_norm = strike.rstrip("0").rstrip(".") if "." in strike else strike
strike_norm(strike) ==
    IF \E i \in 1..Len(strike) : strike[i] = "."
    THEN rstrip(rstrip(strike, "0"), ".")
    ELSE strike

\* The rows of a SELECT, in rowid order.
RECURSIVE fetchall(_)
fetchall(selected) ==
    IF selected = {} THEN <<>>
    ELSE LET first == CHOOSE r \in selected : \A o \in selected : r.id <= o.id
         IN  <<first>> \o fetchall(selected \ {first})

\* dict(r) of a selected row with its match_reason column.
with_reason(selected, reason) ==
    [i \in 1..Len(selected) |-> [id |-> selected[i].id, match_reason |-> reason]]

\* The loop over matches that keeps the last occurrence of an id.
RECURSIVE unique_matches_last(_, _)
unique_matches_last(matches, seen_ids) ==
    IF matches = <<>> THEN <<>>
    ELSE IF \E i \in 2..Len(matches) : matches[i].id = matches[1].id
         THEN unique_matches_last(Tail(matches), seen_ids)
         ELSE <<matches[1]>> \o unique_matches_last(Tail(matches), seen_ids)

\* The loop over matches: an id not in seen_ids is added and its match kept.
RECURSIVE unique_matches(_, _)
unique_matches(matches, seen_ids) ==
    IF matches = <<>> THEN <<>>
    ELSE IF matches[1].id \notin seen_ids
         THEN <<matches[1]>> \o
              unique_matches(Tail(matches), seen_ids \cup {matches[1].id})
         ELSE unique_matches(Tail(matches), seen_ids)

\* query_opposite_orders over the stored rows: three SELECTs, each run only
\* for an argument that is truthy, then the deduplication by id.
query_opposite_orders_matches(rows, ticker, opposite_side, call_qty, put_qty, strike, xmonth, xdate) ==
    LET by_call ==
            IF call_qty # 0 /\ call_qty > 0
            THEN with_reason(fetchall({r \in rows :
                     /\ r.ticker = ticker /\ r.side = opposite_side
                     /\ r.call_qty = call_qty /\ r.call_qty > 0}),
                     "Same Call Qty")
            ELSE <<>>
        by_put ==
            IF put_qty # 0 /\ put_qty > 0
            THEN with_reason(fetchall({r \in rows :
                     /\ r.ticker = ticker /\ r.side = opposite_side
                     /\ r.put_qty = put_qty /\ r.put_qty > 0}),
                     "Same Put Qty")
            ELSE <<>>
        by_strike ==
            IF strike # <<>> /\ xmonth # "" /\ xdate # ""
            THEN with_reason(fetchall({r \in rows :
                     /\ r.ticker = ticker /\ r.side = opposite_side
                     /\ (r.strike = strike \/ r.strike = strike_norm(strike))
                     /\ r.xmonth = xmonth /\ r.xdate = xdate}),
                     "Same Strike + Expiry")
            ELSE <<>>
    IN  unique_matches(by_call \o by_put \o by_strike, {})

\* The arguments of one call and the table it is run on.
OppositeCalls ==
    [rows : SUBSET OppositeOrders, ticker : Tickers, opposite_side : OppositeSides,
     call_qty : OppositeQtys, put_qty : OppositeQtys, strike : OppositeStrikes,
     xmonth : OppositeMonths, xdate : OppositeDays]

InitOpposite ==
    /\ LoopIdle /\ StoreIdle /\ RefreshIdle /\ MultiIdle /\ FloorIdle
    /\ today = 0
    /\ files = [ns \in StateFiles |-> NoFile]
    /\ probe = NoProbe
    /\ obs = ObsIdle
    /\ al = AlIdle
    /\ \E call \in OppositeCalls :
        pf = [fn |-> "query_opposite_orders", args |-> call, done |-> FALSE,
              result |-> <<>>]

\* One call of query_opposite_orders.
QueryOppositeOrders ==
    /\ pf.fn = "query_opposite_orders" /\ ~pf.done
    /\ pf' = [pf EXCEPT !.done = TRUE,
                        !.result = query_opposite_orders_matches(
                            pf.args.rows, pf.args.ticker, pf.args.opposite_side,
                            pf.args.call_qty, pf.args.put_qty, pf.args.strike,
                            pf.args.xmonth, pf.args.xdate)]
    /\ UNCHANGED <<dedupVars, loopVars, storeVars, refreshVars, multiVars,
                   floorVars, al>>

NextOpposite == QueryOppositeOrders

SpecOpposite == InitOpposite /\ [][NextOpposite]_vars

-----------------------------------------------------------------------------
(* The threshold engine's rule: monitor_7day_alerts.check_side *)

\* Cells of the ticker, dollar and quantity columns of the 7Day sheet.
TickerCells == {"AAPL", "", " "}
DollarCells == {"", "$500,000", "$600K"}
QtyCells == {"", "1,000", "1.2K"}

\* The columns find_column_index can find in a header row.
ThresholdColumns == {"call $", "put $", "call qty", "put qty"}
HeaderRows == {ThresholdColumns, ThresholdColumns \ {"call qty"}}

\* The rows of one side of the 7Day sheet.
SheetRows ==
    [ticker : TickerCells, call_dollar : DollarCells, put_dollar : DollarCells,
     call_qty : QtyCells, put_qty : QtyCells]

\* --dollar and --qty: the defaults, and 500000 with 1000.
ThresholdArgs ==
    { [dollar |-> 1000000, qty |-> 1000], [dollar |-> 500000, qty |-> 1000] }

\* The alerts check_side appends for one row: Call$, Put$, Call Qty, Put Qty,
\* each on its own comparison.
row_alerts(side_label, headers, row, sheet_row, dollar_threshold, qty_threshold) ==
    LET base(field, val, threshold) ==
            [side |-> side_label, row |-> sheet_row, label |-> row.ticker,
             field |-> field, value |-> val, threshold |-> threshold]
    IN  (IF "call $" \in headers /\ above(parse_dollar(row.call_dollar), dollar_threshold)
         THEN <<base("Call$", parse_dollar(row.call_dollar), dollar_threshold)>>
         ELSE <<>>)
        \o
        (IF "put $" \in headers /\ above(parse_dollar(row.put_dollar), dollar_threshold)
         THEN <<base("Put$", parse_dollar(row.put_dollar), dollar_threshold)>>
         ELSE <<>>)
        \o
        (IF "call qty" \in headers /\ above(parse_qty(row.call_qty), qty_threshold)
         THEN <<base("Call Qty", parse_qty(row.call_qty), qty_threshold)>>
         ELSE <<>>)
        \o
        (IF "put qty" \in headers /\ above(parse_qty(row.put_qty), qty_threshold)
         THEN <<base("Put Qty", parse_qty(row.put_qty), qty_threshold)>>
         ELSE <<>>)

\* check_side: the loop over data_rows from row_offset on; the sheet row is
\* row_offset + 5.
RECURSIVE check_side_from(_, _, _, _, _, _)
check_side_from(side_label, headers, data_rows, row_offset, dollar_threshold, qty_threshold) ==
    IF row_offset >= Len(data_rows) THEN <<>>
    ELSE row_alerts(side_label, headers, data_rows[row_offset + 1],
                    row_offset + 5, dollar_threshold, qty_threshold)
         \o check_side_from(side_label, headers, data_rows, row_offset + 1,
                            dollar_threshold, qty_threshold)

check_side(side_label, headers, data_rows, dollar_threshold, qty_threshold) ==
    check_side_from(side_label, headers, data_rows, 0, dollar_threshold,
                    qty_threshold)

\* The calls of check_side on the first side of the sheet (the second side
\* differs in its label alone).
CheckSideCalls ==
    [side_label : {"BUYING"}, headers : HeaderRows,
     data_rows : SeqsUpTo(SheetRows, MaxSheetRows), thresholds : ThresholdArgs]

InitThreshold ==
    /\ LoopIdle /\ StoreIdle /\ RefreshIdle /\ MultiIdle /\ FloorIdle
    /\ today = 0
    /\ files = [ns \in StateFiles |-> NoFile]
    /\ probe = NoProbe
    /\ obs = ObsIdle
    /\ al = AlIdle
    /\ \E call \in CheckSideCalls :
        pf = [fn |-> "check_side", args |-> call, done |-> FALSE, result |-> <<>>]

\* One call of check_side.
CheckSide ==
    /\ pf.fn = "check_side" /\ ~pf.done
    /\ pf' = [pf EXCEPT !.done = TRUE,
                        !.result = check_side(pf.args.side_label, pf.args.headers,
                                              pf.args.data_rows,
                                              pf.args.thresholds.dollar,
                                              pf.args.thresholds.qty)]
    /\ UNCHANGED <<dedupVars, loopVars, storeVars, refreshVars, multiVars,
                   floorVars, al>>

NextThreshold == CheckSide

SpecThreshold == InitThreshold /\ [][NextThreshold]_vars

(***************************************************************************)
(* monitor_floor_alerts.check_floor_rows: the candidates of one section.   *)
(* A sheet row is the list of its cells as the Sheets API returns it, so    *)
(* it may be shorter than the header row.  md5 is taken to be injective:    *)
(* a hash is the text that is hashed.                                       *)
(***************************************************************************)
None == -1

\* re.sub(r"\s+", " ", str): every run of whitespace becomes one space.
RECURSIVE collapse(_)
collapse(str) ==
    IF str = "" THEN ""
    ELSE IF Char(str, 1) \in Whitespace
         THEN LET run == CHOOSE n \in 1..Len(str) :
                            /\ \A i \in 1..n : Char(str, i) \in Whitespace
                            /\ n < Len(str) => Char(str, n + 1) \notin Whitespace
              IN  " " \o collapse(SubSeq(str, run + 1, Len(str)))
         ELSE Char(str, 1) \o collapse(SubSeq(str, 2, Len(str)))

\* find_column_index that compares the header and the pattern as they are.
find_column_index_verbatim(headers, patterns) ==
    LET hits == { i \in 1..Len(headers) :
                    \E p \in 1..Len(patterns) : contains(headers[i], patterns[p]) }
    IN  IF hits = {} THEN None
        ELSE (CHOOSE i \in hits : \A j \in hits : i <= j) - 1

\* find_column_index: the 0-based index of the first header that holds one
\* of the patterns as a substring, after whitespace runs of the header are
\* collapsed, its ends stripped and both sides lower-cased; None otherwise.
find_column_index(headers, patterns) ==
    LET h_norm == [i \in 1..Len(headers) |-> lower(strip(collapse(headers[i])))]
        hits == { i \in 1..Len(headers) :
                    \E p \in 1..Len(patterns) :
                        contains(h_norm[i], lower(patterns[p])) }
    IN  IF hits = {} THEN None
        ELSE (CHOOSE i \in hits : \A j \in hits : i <= j) - 1

safe_get(row, idx, default) ==
    IF idx # None /\ idx < Len(row) THEN row[idx + 1] ELSE default

\* "|".join(str(c) for c in row)
RECURSIVE join(_, _)
join(sep, cells) ==
    IF cells = <<>> THEN ""
    ELSE IF Len(cells) = 1 THEN cells[1]
    ELSE cells[1] \o sep \o join(sep, Tail(cells))

floor_row_hash(row) == join("|", row)

\* The column mapping check_floor_rows takes from the header row.
column_mapping(headers) ==
    [time |-> find_column_index(headers, <<"time">>),
     ticker |-> find_column_index(headers, <<"ticker", "symbol", "stock">>),
     strike |-> find_column_index(headers, <<"strike">>),
     dte |-> find_column_index(headers, <<"dte">>),
     call_dollar |-> find_column_index(headers, <<"calls premiums", "calls $", "call$", "call $">>),
     put_dollar |-> find_column_index(headers, <<"puts premiums", "puts $", "put$", "put $">>),
     call_qty |-> find_column_index(headers, <<"calls qty", "call qty">>),
     put_qty |-> find_column_index(headers, <<"puts qty", "put qty">>),
     insights |-> find_column_index(headers, <<"order insights", "insights">>)]

\* The alert check_floor_rows builds from one row that it keeps.
floor_row_alert(config_name, idx, row) ==
    LET ticker == strip(safe_get(row, idx.ticker, ""))
        strike == safe_get(row, idx.strike, "")
        dte == safe_get(row, idx.dte, "")
        label_parts == <<ticker>> \o (IF dte # "" THEN <<dte \o "DTE">> ELSE <<>>)
                                  \o (IF strike # "" THEN <<strike>> ELSE <<>>)
    IN  [monitor |-> config_name,
         row_hash |-> floor_row_hash(row),
         label |-> join(" ", label_parts),
         time |-> safe_get(row, idx.time, ""),
         call_dollar |-> IF idx.call_dollar # None
                         THEN parse_dollar(safe_get(row, idx.call_dollar, "")) ELSE Float(0, 1),
         put_dollar |-> IF idx.put_dollar # None
                        THEN parse_dollar(safe_get(row, idx.put_dollar, "")) ELSE Float(0, 1),
         call_qty |-> IF idx.call_qty # None
                      THEN parse_qty(safe_get(row, idx.call_qty, "")) ELSE Float(0, 1),
         put_qty |-> IF idx.put_qty # None
                     THEN parse_qty(safe_get(row, idx.put_qty, "")) ELSE Float(0, 1),
         insights |-> safe_get(row, idx.insights, "")]

\* The loop of check_floor_rows over the rows it was given, in their order.
floor_row_alerts(config_name, headers, rows) ==
    LET idx == column_mapping(headers)
    IN  [i \in 1..Len(rows) |-> floor_row_alert(config_name, idx, rows[i])]

\* check_floor_rows without the test of the ticker.
check_floor_rows_any_ticker(config_name, headers, data_rows) ==
    LET kept(row) == \E c \in 1..Len(row) : strip(row[c]) # ""
    IN  floor_row_alerts(config_name, headers, SelectSeq(data_rows, kept))

\* check_floor_rows: rows whose cells are all blank and rows without a ticker
\* are skipped; every other row gives one alert.
check_floor_rows(config_name, headers, data_rows) ==
    LET ticker_idx == find_column_index(headers, <<"ticker", "symbol", "stock">>)
        kept(row) == /\ \E c \in 1..Len(row) : strip(row[c]) # ""
                     /\ strip(safe_get(row, ticker_idx, "")) # ""
    IN  floor_row_alerts(config_name, headers, SelectSeq(data_rows, kept))

FloorHeaderRows ==
    { <<"Time", "Ticker", "Strike", "DTE", "Calls $", "Calls  Qty\n", "Order Insights">>,
      <<"Symbol", "Puts Premiums", "Put Qty">> }

FloorSheetRows ==
    { <<>>,
      <<"", " ">>,
      <<"10:01", "SPX", "6000", "0", "$1.2M", "n/a", "Bullish sweep">>,
      <<"10:02", "SPX">>,
      <<"10:03", " ", "6000", "", "$5M">>,
      <<"", "NDX", "", "", "0", "-", "">>,
      <<"", "", "", "", "$1M">> }

CheckFloorRowsCalls ==
    [config_name : FLOOR_CONFIGS, headers : FloorHeaderRows,
     data_rows : SeqsUpTo(FloorSheetRows, MaxFloorRows)]

InitNovelty ==
    /\ LoopIdle /\ StoreIdle /\ RefreshIdle /\ MultiIdle /\ FloorIdle
    /\ today = 0
    /\ files = [ns \in StateFiles |-> NoFile]
    /\ probe = NoProbe
    /\ obs = ObsIdle
    /\ al = AlIdle
    /\ \E call \in CheckFloorRowsCalls :
        pf = [fn |-> "check_floor_rows", args |-> call, done |-> FALSE, result |-> <<>>]

\* One call of check_floor_rows.
CheckFloorRows ==
    /\ pf.fn = "check_floor_rows" /\ ~pf.done
    /\ pf' = [pf EXCEPT !.done = TRUE,
                        !.result = check_floor_rows(pf.args.config_name, pf.args.headers,
                                                    pf.args.data_rows)]
    /\ UNCHANGED <<dedupVars, loopVars, storeVars, refreshVars, multiVars,
                   floorVars, al>>

NextNovelty == CheckFloorRows

SpecNovelty == InitNovelty /\ [][NextNovelty]_vars

(***************************************************************************)
(* One floor section polled again and again on one day while its rows are  *)
(* edited in the sheet.  pf.args holds the section as the sheet has it now; *)
(* pf.result holds the rows of the latest poll, what it returned as new and *)
(* the rows that had been candidates of earlier polls.                      *)
(***************************************************************************)
EditHeaders == <<"Ticker", "Strike", "Order Insights">>

EditSheetRows ==
    { <<"SPX", "5900|6000", "spread">>,
      <<"SPX", "5900", "6000|spread">>,
      <<"SPX", "5900", "spread">> }

InitEdit ==
    /\ LoopIdle /\ StoreIdle /\ RefreshIdle /\ MultiIdle /\ FloorIdle
    /\ today = 0
    /\ files = [ns \in StateFiles |-> NoFile]
    /\ probe = NoProbe
    /\ obs = ObsIdle
    /\ al = AlIdle
    /\ \E cfg_name \in FLOOR_CONFIGS, data_rows \in SeqsUpTo(EditSheetRows, MaxFloorRows) :
        pf = [fn |-> "poll_floor",
              args |-> [config_name |-> cfg_name, headers |-> EditHeaders,
                        data_rows |-> data_rows],
              done |-> FALSE,
              result |-> [rows |-> <<>>, new |-> <<>>, alerted |-> {}]]

\* A cell of a row of the section is edited in the sheet.
EditRow ==
    /\ pf.fn = "poll_floor"
    /\ \E i \in 1..Len(pf.args.data_rows), row \in EditSheetRows :
        /\ row # pf.args.data_rows[i]
        /\ pf' = [pf EXCEPT !.args.data_rows[i] = row]
    /\ UNCHANGED <<dedupVars, loopVars, storeVars, refreshVars, multiVars,
                   floorVars, al>>

\* The section's iteration of monitor_floor_alerts.main: read the rows,
\* check_floor_rows, filter_new_alerts, send.
PollFloorSection ==
    /\ pf.fn = "poll_floor"
    /\ \E section_alerts \in { check_floor_rows(pf.args.config_name, pf.args.headers,
                                                   pf.args.data_rows) },
          dry_run \in BOOLEAN, send_ok \in BOOLEAN :
        LET res == floor_section(section_alerts, files[STATE_FILE], today, dry_run, send_ok)
        IN  /\ dry_run => send_ok
            /\ files' = [files EXCEPT ![STATE_FILE] = res.file]
            /\ pf' = [pf EXCEPT !.done = TRUE,
                                !.result = [rows |-> pf.args.data_rows,
                                            new |-> res.new,
                                            alerted |-> IF pf.done
                                                        THEN pf.result.alerted \cup Range(pf.result.rows)
                                                        ELSE {}]]
    /\ UNCHANGED <<today, probe, obs, loopVars, storeVars, refreshVars, multiVars,
                   floorVars, al>>

NextEdit == EditRow \/ PollFloorSection

SpecEdit == InitEdit /\ [][NextEdit]_vars

(***************************************************************************)
(* The net-flow queries of the two stores: allday_db.query_net_flow and    *)
(* query_net_flow_by_expiry read the insights text of allday_orders,       *)
(* unified_db.query_net_flow reads the direction column that _parse_rows   *)
(* filled in flow_orders.  Dollars and quantities are whole numbers here.   *)
(***************************************************************************)
\* The direction _parse_rows stores with a row.
parse_rows_direction(insights) ==
    IF contains(lower(insights), "bullish") THEN "BULLISH"
    ELSE IF contains(lower(insights), "bearish") THEN "BEARISH"
    ELSE ""

NetFlowSheetRows ==
    { [id |-> 1, source |-> "allday", ticker |-> "AAPL", insights |-> "Bullish sweep",
       xmonth |-> "3", xdate |-> "20", xyear |-> "26",
       call_qty |-> 2, call_dollar |-> 100, put_qty |-> 0, put_dollar |-> 0],
      [id |-> 2, source |-> "allday", ticker |-> "AAPL", insights |-> "bearish block",
       xmonth |-> "3", xdate |-> "20", xyear |-> "26",
       call_qty |-> 0, call_dollar |-> 0, put_qty |-> 1, put_dollar |-> 50],
      [id |-> 3, source |-> "7day", ticker |-> "AAPL",
       insights |-> "Bullish calls, bearish puts",
       xmonth |-> "4", xdate |-> "17", xyear |-> "26",
       call_qty |-> 3, call_dollar |-> 200, put_qty |-> 1, put_dollar |-> 30],
      [id |-> 4, source |-> "7day", ticker |-> "AAPL", insights |-> "",
       xmonth |-> "", xdate |-> "", xyear |-> "",
       call_qty |-> 1, call_dollar |-> 10, put_qty |-> 0, put_dollar |-> 0],
      [id |-> 5, source |-> "allday", ticker |-> "TSLA", insights |-> "BEARISH",
       xmonth |-> "4", xdate |-> "17", xyear |-> "",
       call_qty |-> 0, call_dollar |-> 0, put_qty |-> 4, put_dollar |-> 100] }

\* A stored row: the entry of _parse_rows, with its direction.
StoredRow(r) ==
    [id |-> r.id, source |-> r.source, ticker |-> r.ticker, insights |-> r.insights,
     direction |-> parse_rows_direction(r.insights),
     xmonth |-> r.xmonth, xdate |-> r.xdate, xyear |-> r.xyear,
     call_qty |-> r.call_qty, call_dollar |-> r.call_dollar,
     put_qty |-> r.put_qty, put_dollar |-> r.put_dollar]

NetFlowTickers == {"AAPL", "TSLA", "MSFT"}
NetFlowSources == {"", "allday", "7day"}   \* "" stands for source=None

\* unified_db.query_net_flow: the source filter is added when source is truthy.
unified_query_net_flow(rows, ticker, source) ==
    LET matching == { r \in rows : r.ticker = ticker /\ (source # "" => r.source = source) }
        bull == { r \in matching : r.direction = "BULLISH" }
        bear == { r \in matching : r.direction = "BEARISH" }
        bullish == SumRows(bull, "call_dollar") + SumRows(bull, "put_dollar")
        bearish == SumRows(bear, "call_dollar") + SumRows(bear, "put_dollar")
    IN  [bullish_dollar |-> bullish, bearish_dollar |-> bearish,
         bullish_qty |-> SumRows(bull, "call_qty") + SumRows(bull, "put_qty"),
         bearish_qty |-> SumRows(bear, "call_qty") + SumRows(bear, "put_qty"),
         bullish_count |-> Cardinality(bull), bearish_count |-> Cardinality(bear),
         direction |-> IF bullish > bearish THEN "BULLISH"
                       ELSE IF bearish > bullish THEN "BEARISH"
                       ELSE "NEUTRAL"]

Abs(n) == IF n < 0 THEN -n ELSE n

\* query_net_flow_by_expiry with ORDER BY ... ASC.
query_net_flow_by_expiry_ascending(rows, ticker) ==
    LET grouped == { r \in rows : r.ticker = ticker /\ r.xmonth # "" /\ r.xdate # "" }
        expiries == { <<r.xmonth, r.xdate, r.xyear>> : r \in grouped }
        group(x) == { r \in grouped : <<r.xmonth, r.xdate, r.xyear>> = x }
        result(x) ==
            LET net_flow == query_net_flow(group(x), ticker)
            IN  [xmonth |-> x[1], xdate |-> x[2], xyear |-> x[3],
                 expiry_label |-> x[1] \o "/" \o x[2] \o (IF x[3] # "" THEN "/" \o x[3] ELSE ""),
                 bullish_dollar |-> net_flow.bullish_dollar,
                 bearish_dollar |-> net_flow.bearish_dollar,
                 bullish_qty |-> net_flow.bullish_qty, bearish_qty |-> net_flow.bearish_qty,
                 bullish_count |-> net_flow.bullish_count,
                 bearish_count |-> net_flow.bearish_count,
                 direction |-> net_flow.direction]
        results == { result(x) : x \in expiries }
    IN  { s \in [1..Cardinality(results) -> results] :
            /\ \A i, j \in 1..Len(s) : i # j => s[i] # s[j]
            /\ \A i, j \in 1..Len(s) :
                i < j => Abs(s[i].bullish_dollar - s[i].bearish_dollar)
                            <= Abs(s[j].bullish_dollar - s[j].bearish_dollar) }

\* allday_db.query_net_flow_by_expiry: the lists the query may return.  The
\* rows of the ticker that have xmonth and xdate are grouped by expiry, every
\* group is aggregated as query_net_flow aggregates, and the groups are
\* ordered by |bullish_dollar - bearish_dollar|, largest first; SQLite is
\* free in the order of groups whose keys are equal.
query_net_flow_by_expiry(rows, ticker) ==
    LET grouped == { r \in rows : r.ticker = ticker /\ r.xmonth # "" /\ r.xdate # "" }
        expiries == { <<r.xmonth, r.xdate, r.xyear>> : r \in grouped }
        group(x) == { r \in grouped : <<r.xmonth, r.xdate, r.xyear>> = x }
        result(x) ==
            LET net_flow == query_net_flow(group(x), ticker)
            IN  [xmonth |-> x[1], xdate |-> x[2], xyear |-> x[3],
                 expiry_label |-> x[1] \o "/" \o x[2] \o (IF x[3] # "" THEN "/" \o x[3] ELSE ""),
                 bullish_dollar |-> net_flow.bullish_dollar,
                 bearish_dollar |-> net_flow.bearish_dollar,
                 bullish_qty |-> net_flow.bullish_qty, bearish_qty |-> net_flow.bearish_qty,
                 bullish_count |-> net_flow.bullish_count,
                 bearish_count |-> net_flow.bearish_count,
                 direction |-> net_flow.direction]
        results == { result(x) : x \in expiries }
    IN  { s \in [1..Cardinality(results) -> results] :
            /\ \A i, j \in 1..Len(s) : i # j => s[i] # s[j]
            /\ \A i, j \in 1..Len(s) :
                i < j => Abs(s[i].bullish_dollar - s[i].bearish_dollar)
                            >= Abs(s[j].bullish_dollar - s[j].bearish_dollar) }

NetFlowCalls ==
    [fn : {"allday_db.query_net_flow", "allday_db.query_net_flow_by_expiry",
           "unified_db.query_net_flow"},
     args : [rows : { { StoredRow(r) : r \in sheet } : sheet \in SUBSET NetFlowSheetRows },
             ticker : NetFlowTickers, source : NetFlowSources]]

InitNetFlow ==
    /\ LoopIdle /\ StoreIdle /\ RefreshIdle /\ MultiIdle /\ FloorIdle
    /\ today = 0
    /\ files = [ns \in StateFiles |-> NoFile]
    /\ probe = NoProbe
    /\ obs = ObsIdle
    /\ al = AlIdle
    /\ \E call \in NetFlowCalls :
        /\ call.fn # "unified_db.query_net_flow" => call.args.source = ""
        /\ pf = [fn |-> call.fn, args |-> call.args, done |-> FALSE, result |-> <<>>]

\* One call of allday_db.query_net_flow(ticker).
QueryNetFlow ==
    /\ pf.fn = "allday_db.query_net_flow" /\ ~pf.done
    /\ pf' = [pf EXCEPT !.done = TRUE,
                        !.result = query_net_flow(pf.args.rows, pf.args.ticker)]
    /\ UNCHANGED <<dedupVars, loopVars, storeVars, refreshVars, multiVars,
                   floorVars, al>>

\* One call of unified_db.query_net_flow(ticker, source).
UnifiedQueryNetFlow ==
    /\ pf.fn = "unified_db.query_net_flow" /\ ~pf.done
    /\ pf' = [pf EXCEPT !.done = TRUE,
                        !.result = unified_query_net_flow(pf.args.rows, pf.args.ticker,
                                                          pf.args.source)]
    /\ UNCHANGED <<dedupVars, loopVars, storeVars, refreshVars, multiVars,
                   floorVars, al>>

\* One call of allday_db.query_net_flow_by_expiry(ticker).
QueryNetFlowByExpiry ==
    /\ pf.fn = "allday_db.query_net_flow_by_expiry" /\ ~pf.done
    /\ \E results \in query_net_flow_by_expiry(pf.args.rows, pf.args.ticker) :
        pf' = [pf EXCEPT !.done = TRUE, !.result = results]
    /\ UNCHANGED <<dedupVars, loopVars, storeVars, refreshVars, multiVars,
                   floorVars, al>>

NextNetFlow == QueryNetFlow \/ UnifiedQueryNetFlow \/ QueryNetFlowByExpiry

SpecNetFlow == InitNetFlow /\ [][NextNetFlow]_vars

(***************************************************************************)
(* monitor_utils.find_column_index on header rows of the sheets.            *)
(***************************************************************************)
HeaderCells == {"Ticker", "Calls  Qty\n", "Call Qty", ""}
HeaderPatterns == {"call qty", "calls qty", "CALLS QTY"}

FindColumnIndexCalls ==
    [headers : SeqsUpTo(HeaderCells, MaxHeaderCells),
     patterns : SeqsUpTo(HeaderPatterns, MaxPatterns) \ {<<>>}]

InitHeader ==
    /\ LoopIdle /\ StoreIdle /\ RefreshIdle /\ MultiIdle /\ FloorIdle
    /\ today = 0
    /\ files = [ns \in StateFiles |-> NoFile]
    /\ probe = NoProbe
    /\ obs = ObsIdle
    /\ al = AlIdle
    /\ \E call \in FindColumnIndexCalls :
        pf = [fn |-> "find_column_index", args |-> call, done |-> FALSE, result |-> None]

\* One call of find_column_index(headers, *patterns).
FindColumnIndex ==
    /\ pf.fn = "find_column_index" /\ ~pf.done
    /\ pf' = [pf EXCEPT !.done = TRUE,
                        !.result = find_column_index(pf.args.headers, pf.args.patterns)]
    /\ UNCHANGED <<dedupVars, loopVars, storeVars, refreshVars, multiVars,
                   floorVars, al>>

NextHeader == FindColumnIndex

SpecHeader == InitHeader /\ [][NextHeader]_vars

(***************************************************************************)
(* unified_db._parse_rows and _insert_entries: sheet rows become entries   *)
(* and entries become rows of flow_orders.  Of an entry the model keeps the *)
(* source, the side, the ticker, the strike, the four numbers, the insights *)
(* and the direction; dates, expiry and prices are text copied from the    *)
(* row and are left out.                                                    *)
(***************************************************************************)
ParseHeaders == <<"Ticker", "Strike", "Calls Qty", "Calls $", "Puts Qty", "Puts $", "Order Insights">>

ParseSheetRows ==
    { <<"AAPL", "150", "1,000", "$500K", "", "", "Bullish sweep">>,
      <<"AAPL", "150", "-1,000", "-$1.2K", "", "", "bearish">>,
      <<"TSLA", "200", "", "", "2K", "n/a">>,
      <<"", "200", "5", "$5", "5", "$5", "Bullish">>,
      <<"MSFT", "", "0", "$0", "-0", "$-1.5M", "">>,
      <<"SPX">> }

\* _parse_rows: one entry for every row with a ticker.
parse_rows(source, side_label, headers, data_rows) ==
    LET ticker_idx == find_column_index(headers, <<"ticker", "symbol", "stock">>)
        strike_idx == find_column_index(headers, <<"strike">>)
        call_qty_idx == find_column_index(headers, <<"calls qty", "call qty", "call quantity">>)
        call_dollar_idx == find_column_index(headers, <<"calls $", "call $", "call$", "calls premiums">>)
        put_qty_idx == find_column_index(headers, <<"puts qty", "put qty", "put quantity">>)
        put_dollar_idx == find_column_index(headers, <<"puts $", "put $", "put$", "puts premiums">>)
        insights_idx == find_column_index(headers, <<"order insights", "insights">>)
        entry(row) ==
            [source |-> source, side |-> side_label,
             ticker |-> strip(safe_get(row, ticker_idx, "")),
             strike |-> strip(safe_get(row, strike_idx, "")),
             call_qty |-> IF call_qty_idx # None
                          THEN parse_qty(safe_get(row, call_qty_idx, "")) ELSE Float(0, 1),
             call_dollar |-> IF call_dollar_idx # None
                             THEN parse_dollar(safe_get(row, call_dollar_idx, "")) ELSE Float(0, 1),
             put_qty |-> IF put_qty_idx # None
                         THEN parse_qty(safe_get(row, put_qty_idx, "")) ELSE Float(0, 1),
             put_dollar |-> IF put_dollar_idx # None
                            THEN parse_dollar(safe_get(row, put_dollar_idx, "")) ELSE Float(0, 1),
             insights |-> safe_get(row, insights_idx, ""),
             direction |-> parse_rows_direction(safe_get(row, insights_idx, ""))]
        with_ticker(row) == strip(safe_get(row, ticker_idx, "")) # ""
        kept == SelectSeq(data_rows, with_ticker)
    IN  [i \in 1..Len(kept) |-> entry(kept[i])]

\* The executemany INSERT of _insert_entries: the rows of flow_orders after the insert into an empty
\* table, each with the id SQLite gives it and the date of the load.
flow_order_rows(entries, d) ==
    { [id |-> i, loaded_date |-> d, source |-> entries[i].source, side |-> entries[i].side,
       ticker |-> entries[i].ticker, strike |-> entries[i].strike,
       call_qty |-> entries[i].call_qty, call_dollar |-> entries[i].call_dollar,
       put_qty |-> entries[i].put_qty, put_dollar |-> entries[i].put_dollar,
       insights |-> entries[i].insights, direction |-> entries[i].direction] :
      i \in 1..Len(entries) }

ParseRowsCalls ==
    [source : {"allday", "7day"}, side_label : {"BUYING", "SELLING"},
     headers : {ParseHeaders}, data_rows : SeqsUpTo(ParseSheetRows, MaxParseRows)]

InitNormalize ==
    /\ LoopIdle /\ StoreIdle /\ RefreshIdle /\ MultiIdle /\ FloorIdle
    /\ today = 0
    /\ files = [ns \in StateFiles |-> NoFile]
    /\ probe = NoProbe
    /\ obs = ObsIdle
    /\ al = AlIdle
    /\ \E call \in ParseRowsCalls :
        pf = [fn |-> "_parse_rows", args |-> call, done |-> FALSE,
              result |-> [entries |-> <<>>, inserted |-> FALSE, flow_orders |-> {}]]

\* One call of _parse_rows.
ParseRows ==
    /\ pf.fn = "_parse_rows" /\ ~pf.done
    /\ pf' = [pf EXCEPT !.done = TRUE,
                        !.result.entries = parse_rows(pf.args.source, pf.args.side_label,
                                                      pf.args.headers, pf.args.data_rows)]
    /\ UNCHANGED <<dedupVars, loopVars, storeVars, refreshVars, multiVars,
                   floorVars, al>>

\* _insert_entries on the entries of the call.
InsertEntries ==
    /\ pf.fn = "_parse_rows" /\ pf.done /\ ~pf.result.inserted
    /\ pf' = [pf EXCEPT !.result.inserted = TRUE,
                        !.result.flow_orders = flow_order_rows(pf.result.entries, today)]
    /\ UNCHANGED <<dedupVars, loopVars, storeVars, refreshVars, multiVars,
                   floorVars, al>>

NextNormalize == ParseRows \/ InsertEntries

SpecNormalize == InitNormalize /\ [][NextNormalize]_vars

(***************************************************************************)
(* parse_dollar and parse_qty on cell texts.  A missing value (None) takes *)
(* the same branch as the empty text, `not value`, and is written "".       *)
(***************************************************************************)
ParseCells ==
    { "", " ", "\t\n", "K", "m", "B", "$", "abc", "N/A", "nan", "-inf",
      "$1,234,567", "$1.2M", "500K", "1.2K", "1234567", "-500", "1e3", "1_000",
      "2K", "2k", "2M", "2m", "2B", "2b", " $2 K ", "5", "$5.", "1,000", ".5" }

ParseCalls == [fn : {"parse_dollar", "parse_qty"}, value : ParseCells]

InitParse ==
    /\ LoopIdle /\ StoreIdle /\ RefreshIdle /\ MultiIdle /\ FloorIdle
    /\ today = 0
    /\ files = [ns \in StateFiles |-> NoFile]
    /\ probe = NoProbe
    /\ obs = ObsIdle
    /\ al = AlIdle
    /\ \E call \in ParseCalls :
        pf = [fn |-> call.fn, args |-> [value |-> call.value], done |-> FALSE,
              result |-> Float(0, 1)]

\* One call of parse_dollar.
ParseDollar ==
    /\ pf.fn = "parse_dollar" /\ ~pf.done
    /\ pf' = [pf EXCEPT !.done = TRUE, !.result = parse_dollar(pf.args.value)]
    /\ UNCHANGED <<dedupVars, loopVars, storeVars, refreshVars, multiVars,
                   floorVars, al>>

\* One call of parse_qty.
ParseQty ==
    /\ pf.fn = "parse_qty" /\ ~pf.done
    /\ pf' = [pf EXCEPT !.done = TRUE, !.result = parse_qty(pf.args.value)]
    /\ UNCHANGED <<dedupVars, loopVars, storeVars, refreshVars, multiVars,
                   floorVars, al>>

NextParse == ParseDollar \/ ParseQty

SpecParse == InitParse /\ [][NextParse]_vars

(***************************************************************************)
(* The flow query of the dashboard (web/app.py query_flow) and of the      *)
(* command line (tools/query_flow.py main): the rows of flow_orders of a   *)
(* ticker, filtered by the lookback window and the minimum totals.  A date *)
(* is the number of its day, as date.toordinal() counts it.                 *)
(***************************************************************************)
\* str.split(sep) for a one-character sep.
RECURSIVE split(_, _)
split(str, sep) ==
    LET seps == {i \in 1..Len(str) : Char(str, i) = sep}
    IN  IF seps = {} THEN <<str>>
        ELSE LET first == CHOOSE i \in seps : \A k \in seps : i <= k
             IN  <<SubSeq(str, 1, first - 1)>> \o split(SubSeq(str, first + 1, Len(str)), sep)

\* int(str): blanks dropped, one sign, digits; anything else is a ValueError.
int(str) ==
    LET t == strip(str)
        signed == t # "" /\ Char(t, 1) \in {"-", "+"}
        sign == IF t # "" /\ Char(t, 1) = "-" THEN -1 ELSE 1
        u == IF signed THEN SubSeq(t, 2, Len(t)) ELSE t
    IN  IF digitpart(u) THEN [ok |-> TRUE, val |-> sign * digits_value(remove(u, "_"))]
        ELSE [ok |-> FALSE, val |-> 0]

is_leap(year) == year % 4 = 0 /\ (year % 100 # 0 \/ year % 400 = 0)
days_in_month(year, month) ==
    IF month = 2 THEN (IF is_leap(year) THEN 29 ELSE 28)
    ELSE IF month \in {4, 6, 9, 11} THEN 30 ELSE 31
RECURSIVE days_before_month(_, _)
days_before_month(year, month) ==
    IF month = 1 THEN 0
    ELSE days_before_month(year, month - 1) + days_in_month(year, month - 1)

\* datetime(year, month, day).date(), as its ordinal; a date that does not
\* exist is a ValueError.
datetime_date(year, month, day) ==
    IF /\ year \in 1..9999 /\ month \in 1..12
       /\ day >= 1 /\ day <= days_in_month(year, month)
    THEN [ok |-> TRUE,
          val |-> (year - 1) * 365 + ((year - 1) \div 4) - ((year - 1) \div 100)
                  + ((year - 1) \div 400) + days_before_month(year, month) + day]
    ELSE [ok |-> FALSE, val |-> None]

\* _parse_order_date: the date of an "M/D/YY" text, or None.
parse_order_date(date_str) ==
    LET parts == split(strip(date_str), "/")
    IN  IF Len(parts) # 3 THEN None
        ELSE LET m == int(parts[1])
                 d == int(parts[2])
                 y == int(parts[3])
                 year == IF y.val < 100 THEN 2000 + y.val ELSE y.val
             IN  IF m.ok /\ d.ok /\ y.ok THEN datetime_date(year, m.val, d.val).val
                 ELSE None

FlowOrders ==
    { [id |-> 1, source |-> "7day", side |-> "BUYING", ticker |-> "AAPL",
       order_date |-> "11/2/26", call_dollar |-> 500, put_dollar |-> 0],
      [id |-> 2, source |-> "allday", side |-> "SELLING", ticker |-> "AAPL",
       order_date |-> "10/01/2026", call_dollar |-> 0, put_dollar |-> 50],
      [id |-> 3, source |-> "allday", side |-> "BUYING", ticker |-> "AAPL",
       order_date |-> "Nov 2", call_dollar |-> 200, put_dollar |-> 0],
      [id |-> 4, source |-> "7day", side |-> "BUYING", ticker |-> "AAPL",
       order_date |-> "", call_dollar |-> 300, put_dollar |-> 0],
      [id |-> 5, source |-> "7day", side |-> "BUYING", ticker |-> "AAPL",
       order_date |-> "2/30/26", call_dollar |-> 100, put_dollar |-> 100],
      [id |-> 6, source |-> "7day", side |-> "BUYING", ticker |-> "TSLA",
       order_date |-> "11/3/26", call_dollar |-> 100, put_dollar |-> 0] }

\* The rows the query's loop keeps, by id: SELECT by ticker (and source and
\* side), then the cutoff of the lookback window and the minimum dollars.
flow_entries(rows, ticker, days, source, side, min_dollar, now) ==
    LET selected == { r \in rows :
                        /\ r.ticker = ticker
                        /\ source # "" => r.source = source
                        /\ side # "both" => r.side = side }
        skipped(r) ==
            LET order_date == IF r.order_date # "" THEN parse_order_date(r.order_date) ELSE None
            IN  \/ days > 0 /\ order_date # None /\ order_date < now - days
                \/ min_dollar > 0 /\ r.call_dollar + r.put_dollar < min_dollar
    IN  [total_count |-> Cardinality(selected),
         entries |-> { r.id : r \in { x \in selected : ~skipped(x) } }]

FlowQueries ==
    [fn : {"app.query_flow", "query_flow.main"},
     args : [rows : SUBSET FlowOrders, ticker : {"AAPL"}, days : {0, 7, 60},
             source : {"", "7day"}, side : {"both", "BUYING"},
             min_dollar : {0, 150}, now : {datetime_date(2026, 11, 3).val}]]

InitQuery ==
    /\ LoopIdle /\ StoreIdle /\ RefreshIdle /\ MultiIdle /\ FloorIdle
    /\ today = 0
    /\ files = [ns \in StateFiles |-> NoFile]
    /\ probe = NoProbe
    /\ obs = ObsIdle
    /\ al = AlIdle
    /\ \E query \in FlowQueries :
        pf = [fn |-> query.fn, args |-> query.args, done |-> FALSE,
              result |-> [total_count |-> 0, entries |-> {}]]

\* GET /api/flow: the entries of the response.
QueryFlow ==
    /\ pf.fn = "app.query_flow" /\ ~pf.done
    /\ pf' = [pf EXCEPT !.done = TRUE,
                        !.result = flow_entries(pf.args.rows, pf.args.ticker, pf.args.days,
                                                pf.args.source, pf.args.side,
                                                pf.args.min_dollar, pf.args.now)]
    /\ UNCHANGED <<dedupVars, loopVars, storeVars, refreshVars, multiVars,
                   floorVars, al>>

\* tools/query_flow.py main: it returns before the loop when the table or
\* the selection is empty, and runs the same loop otherwise.
QueryFlowMain ==
    /\ pf.fn = "query_flow.main" /\ ~pf.done
    /\ pf' = [pf EXCEPT !.done = TRUE,
                        !.result = IF pf.args.rows = {}
                                   THEN [total_count |-> 0, entries |-> {}]
                                   ELSE flow_entries(pf.args.rows, pf.args.ticker, pf.args.days,
                                                     pf.args.source, pf.args.side,
                                                     pf.args.min_dollar, pf.args.now)]
    /\ UNCHANGED <<dedupVars, loopVars, storeVars, refreshVars, multiVars,
                   floorVars, al>>

NextQuery == QueryFlow \/ QueryFlowMain

SpecQuery == InitQuery /\ [][NextQuery]_vars

-----------------------------------------------------------------------------
(* The transport: send_telegram and its fan-out over the recipients *)

\* The longest recipient list the calls carry.
MaxRecipients == 2

\* What one request to the Bot API can end in: a reply with "ok" true, a
\* reply with "ok" false, a body that is not JSON, a URLError, an HTTPError
\* whose body decodes, and an HTTPError whose body is not UTF-8.
Responses ==
    {"ok", "api_error", "bad_json", "url_error", "http_error", "http_error_body"}

\* _send_one: True on "ok", False on everything the try block catches.  The
\* handler of HTTPError decodes the body outside any try block, so a body
\* that does not decode leaves _send_one with UnicodeDecodeError.
send_one(response) ==
    CASE response = "ok"              -> [ok |-> TRUE, raised |-> FALSE]
      [] response = "http_error_body" -> [ok |-> FALSE, raised |-> TRUE]
      [] OTHER                        -> [ok |-> FALSE, raised |-> FALSE]

\* [c.strip() for c in chat_ids_raw.split(",") if c.strip()]
chat_ids_of(chat_ids_raw) ==
    LET parts == split(chat_ids_raw, ",")
        stripped == [i \in 1..Len(parts) |-> strip(parts[i])]
    IN SelectSeq(stripped, LAMBDA c : c # "")

\* The loop of send_telegram from recipient i on: responses[i] is what the
\* i-th request ends in.  A raise of _send_one ends the loop.
RECURSIVE send_all(_, _, _, _, _)
send_all(chat_ids, responses, i, all_ok, attempted) ==
    IF i > Len(chat_ids)
    THEN [ok |-> all_ok, raised |-> FALSE, attempted |-> attempted]
    ELSE LET one == send_one(responses[i])
         IN IF one.raised
            THEN [ok |-> FALSE, raised |-> TRUE,
                  attempted |-> Append(attempted, chat_ids[i])]
            ELSE send_all(chat_ids, responses, i + 1, all_ok /\ one.ok,
                          Append(attempted, chat_ids[i]))

\* send_telegram(message, bot_token, chat_id): "" stands for a token or a
\* recipient list that neither the argument nor the environment gives.
send_telegram(bot_token, chat_ids_raw, responses) ==
    IF bot_token = "" \/ chat_ids_raw = ""
    THEN [ok |-> FALSE, raised |-> FALSE, attempted |-> <<>>]
    ELSE send_all(chat_ids_of(chat_ids_raw), responses, 1, TRUE, <<>>)

BotTokens == {"", "123:abc"}

ChatIdLists == {"", "11", "11,22", " 11 , 22 ", "11,,22", "22,11"}

ResponseLists == [1..MaxRecipients -> Responses]

InitTransport ==
    /\ LoopIdle /\ StoreIdle /\ RefreshIdle /\ MultiIdle /\ FloorIdle
    /\ today = 0
    /\ files = [ns \in StateFiles |-> NoFile]
    /\ probe = NoProbe
    /\ obs = ObsIdle
    /\ al = AlIdle
    /\ \E bot_token \in BotTokens, chat_id \in ChatIdLists, responses \in ResponseLists :
        pf = [fn |-> "send_telegram",
              args |-> [bot_token |-> bot_token, chat_id |-> chat_id,
                        responses |-> responses],
              done |-> FALSE,
              result |-> [ok |-> FALSE, raised |-> FALSE, attempted |-> <<>>]]

SendTelegram ==
    /\ pf.fn = "send_telegram" /\ ~pf.done
    /\ pf' = [pf EXCEPT !.done = TRUE,
                        !.result = send_telegram(pf.args.bot_token, pf.args.chat_id,
                                                 pf.args.responses)]
    /\ UNCHANGED <<dedupVars, loopVars, storeVars, refreshVars, multiVars,
                   floorVars, al>>

NextTransport == SendTelegram

SpecTransport == InitTransport /\ [][NextTransport]_vars

-----------------------------------------------------------------------------
(* The threshold monitor run as a one-shot check *)

NoRun ==
    [file |-> NoFile, filtered |-> FALSE, new |-> <<>>, message |-> <<>>,
     sent |-> FALSE, ok |-> TRUE, exit |-> 0]

InitOneShot ==
    /\ LoopIdle /\ StoreIdle /\ RefreshIdle /\ MultiIdle /\ FloorIdle
    /\ today = 0
    /\ files = [ns \in StateFiles |-> NoFile]
    /\ probe = NoProbe
    /\ obs = ObsIdle
    /\ al = AlIdle
    /\ pf = [fn |-> "monitor_7day_alerts.main",
             args |-> [all_alerts |-> <<>>, dry_run |-> FALSE, send_ok |-> TRUE],
             done |-> FALSE, result |-> NoRun]

\* python tools/monitor_7day_alerts.py [--dry-run], run by hand or by cron:
\* all_alerts is what check_side found, send_ok what the transport answers
\* when it is asked.  pf keeps the latest run and how it ended.
OneShot7Day ==
    \E all_alerts \in SeqsUpTo(Alerts7Day, MaxEngineBatch),
       dry_run \in BOOLEAN, send_ok \in BOOLEAN :
        LET res == monitor_7day_report(all_alerts, files[STATE_FILE_7DAY], today,
                                       dry_run, send_ok)
        IN  /\ files' = [files EXCEPT ![STATE_FILE_7DAY] = res.file]
            /\ pf' = [pf EXCEPT !.args = [all_alerts |-> all_alerts, dry_run |-> dry_run,
                                          send_ok |-> send_ok],
                                !.done = TRUE, !.result = res]
            /\ UNCHANGED <<today, probe, obs, loopVars, storeVars, refreshVars,
                           multiVars, floorVars, al>>

NextOneShot == OneShot7Day

SpecOneShot == InitOneShot /\ [][NextOneShot]_vars

-----------------------------------------------------------------------------
(* The SPX 0DTE signal monitor, poll after poll *)

\* What the polls read in A4: SpxCells, a row without a cell, a cell that
\* cleans to the empty text, and a buy signal in another spelling.
SignalCells == SpxCells \cup { << <<>> >>, << <<"?">> >>, << <<" buy puts! ">> >> }

\* How send_telegram can end when it is called.
SendResults == {"ok", "failed", "raised"}

\* The latest polls that pf keeps.
PollWindow == 3

InitSignal ==
    /\ LoopIdle /\ StoreIdle /\ RefreshIdle /\ MultiIdle /\ FloorIdle
    /\ today = 0
    /\ files = [ns \in StateFiles |-> NoFile]
    /\ probe = NoProbe
    /\ obs = ObsIdle
    /\ al = AlIdle
    /\ pf = [fn |-> "check_signal",
             args |-> [data |-> <<>>, dry_run |-> FALSE, send |-> "ok"],
             done |-> FALSE,
             result |-> [before |-> "", sent |-> FALSE, raised |-> FALSE, polls |-> <<>>]]

\* One call check_signal(config, dry_run): spx_last is last_seen of the state
\* file.  The state is saved before send_telegram is called, so it is saved
\* however the send ends.  pf keeps the call, the value of last_seen before
\* it, and of the latest PollWindow polls what they read, cleaned, and
\* whether they sent.
PollSignal ==
    \E data \in SignalCells, dry_run \in BOOLEAN, send \in SendResults :
        LET r == check_signal(data, spx_last, dry_run)
            poll == [has_cell |-> data # <<>> /\ data[1] # <<>>,
                     value_clean |-> IF data # <<>> /\ data[1] # <<>>
                                     THEN value_clean_of(data) ELSE "",
                     dry_run |-> dry_run, sent |-> r.sent]
            polls == Append(pf.result.polls, poll)
        IN  /\ ~r.sent => send = "ok"
            /\ spx_last' = r.last_seen
            /\ pf' = [pf EXCEPT
                        !.args = [data |-> data, dry_run |-> dry_run, send |-> send],
                        !.done = TRUE,
                        !.result = [before |-> spx_last, sent |-> r.sent,
                                    raised |-> r.sent /\ send = "raised",
                                    polls |-> IF Len(polls) > PollWindow
                                              THEN Tail(polls) ELSE polls]]
            /\ UNCHANGED <<dedupVars, loop, db_loaded_date, cyc, storeVars,
                           refreshVars, multiVars, floorVars, al>>

NextSignal == PollSignal

SpecSignal == InitSignal /\ [][NextSignal]_vars

-----------------------------------------------------------------------------
(* Claims about the deduplication substrate *)

\* C1: Dedup idempotence.  When filter_new_alerts is called with a candidate
\* list that was already submitted to the same namespace earlier the same
\* day, the call returns the empty list.
C1_DedupIdempotent == obs.repeat => obs.out = <<>>

\* The watched candidate list has been submitted a second time the same day.
C1_Witness == obs.repeat /\ Len(probe.batch) >= 1

\* No key is dropped from a state file that carries the date of the call.
NoRemoval ==
    \A ns \in StateFiles :
        (files[ns].exists /\ files[ns].date = today')
            => /\ files'[ns].exists
               /\ files'[ns].date = today'
               /\ files[ns].seen \subseteq files'[ns].seen

\* C2: At-most-once per key per day.  Over the calls of one day a key is
\* returned at most once in total, and a key in the persisted seen-set stays
\* in it as long as the date does not change.
C2_AtMostOncePerDay == [](obs.ret <= 1) /\ [][NoRemoval]_vars

\* The watched key was a candidate in two calls of one day and returned once.
C2_Witness == obs.offered = 2 /\ obs.ret = 1

\* C3: Dedup daily reset.  A call that finds a state file of another date
\* returns exactly one alert per distinct candidate key, whatever keys the
\* file held.
C3_DailyReset ==
    obs.stale => /\ Range(obs.new) = Range(obs.cands)
                 /\ Len(obs.new) = Cardinality(Range(obs.cands))

\* The latest call found a file of another date that held a candidate's key.
C3_Witness == obs.stale /\ obs.prior \cap Range(obs.cands) # {}

\* C4: A failed delivery does not roll back the seen-set.  Once the send of a
\* message holding the watched key has failed, the key stays in today's
\* persisted seen-set, and over the day it was returned once and handed to
\* the transport once.
C4_NoRollbackOnFailedDelivery ==
    obs.failed => /\ obs.ret = 1
                  /\ obs.sent = 1
                  /\ files[probe.ns].exists
                  /\ files[probe.ns].date = today
                  /\ probe.key \in files[probe.ns].seen

\* The send of the watched key failed and a later poll of the day offered
\* the key again.
C4_Witness == obs.failed /\ obs.offered = 2

-----------------------------------------------------------------------------
(* Claims about the polling loop *)

\* C5: In the continuous loop a failed delivery of the threshold engine is
\* caught and logged: the process does not terminate, and the cycle goes on
\* with the remaining engines.
C5_LoopSurvivesDeliveryFailure == cyc.failed7 => loop.pc # "terminated"

\* C23: Dedup namespaces do not collide.  The state files of the engines
\* have three different names; a call of filter_new_alerts of one engine
\* leaves the state file of the other engine as it was; and a row of a Floor
\* section that was not offered in that section earlier today is returned as
\* new, also when the same content was offered in another section.
C23_NamespacesDoNotCollide ==
    /\ [](/\ Cardinality({STATE_FILE_7DAY, STATE_FILE, MULTI_SOURCE_STATE}) = 3
          /\ obs.ns = STATE_FILE =>
                \A i \in 1..Len(obs.rows) :
                    obs.rows[i] \notin obs.hist => obs.rows[i] \in Range(obs.newrows))
    /\ [][/\ obs'.ns = STATE_FILE /\ obs' # obs =>
                files'[STATE_FILE_7DAY] = files[STATE_FILE_7DAY]
          /\ obs'.ns = STATE_FILE_7DAY /\ obs' # obs =>
                files'[STATE_FILE] = files[STATE_FILE]]_vars

\* A row content already offered in one section today was offered in another
\* section and returned as new, while the 7Day state file held keys.
C23_Witness ==
    /\ obs.ns = STATE_FILE
    /\ files[STATE_FILE_7DAY].exists /\ files[STATE_FILE_7DAY].seen # {}
    /\ \E i \in 1..Len(obs.rows) :
        /\ obs.rows[i] \in Range(obs.newrows)
        /\ \E h \in obs.hist :
            h.content = obs.rows[i].content /\ h.section # obs.rows[i].section

\* C24: Order preservation.  The alerts filter_new_alerts returns are, in
\* the order of the candidate list, the first candidate of every key that
\* was not in the seen-set, and nothing else; the message that is sent lists
\* these alerts in that order.
C24_OrderPreserved ==
    obs.ns # "" =>
        LET seen == IF obs.stale THEN {} ELSE obs.prior
            firsts == { i \in 1..Len(obs.cands) :
                          /\ obs.cands[i] \notin seen
                          /\ \A j \in 1..(i - 1) : obs.cands[j] # obs.cands[i] }
            nth(k) == CHOOSE i \in firsts : Cardinality({ j \in firsts : j <= i }) = k
        IN  /\ Len(obs.out) = Cardinality(firsts)
            /\ \A k \in 1..Len(obs.out) : obs.out[k] = obs.inp[nth(k)]
            /\ obs.delivered => obs.msg = obs.out

\* A list of two candidates of one key and different sheet rows was
\* filtered, and the first of the two was delivered alone.
C24_Witness ==
    /\ obs.ns = STATE_FILE_7DAY /\ obs.delivered
    /\ Len(obs.inp) = 2 /\ obs.inp[1] # obs.inp[2] /\ obs.cands[1] = obs.cands[2]
    /\ obs.msg = <<obs.inp[1]>>

\* C25: Novelty candidates.  check_floor_rows returns exactly one candidate
\* for every data row that has a non-blank cell and a non-blank ticker cell,
\* in the order of the rows, whatever its quantity and dollar cells hold, and
\* none for any other row.
C25_OneCandidatePerTickerRow ==
    (pf.fn = "check_floor_rows" /\ pf.done) =>
        LET rows == pf.args.data_rows
            ticker_idx == find_column_index(pf.args.headers, <<"ticker", "symbol", "stock">>)
            with_ticker == { i \in 1..Len(rows) :
                               /\ \E c \in 1..Len(rows[i]) : strip(rows[i][c]) # ""
                               /\ strip(safe_get(rows[i], ticker_idx, "")) # "" }
            nth(k) == CHOOSE i \in with_ticker : Cardinality({ j \in with_ticker : j <= i }) = k
        IN  /\ Len(pf.result) = Cardinality(with_ticker)
            /\ \A k \in 1..Len(pf.result) :
                /\ pf.result[k].row_hash = floor_row_hash(rows[nth(k)])
                /\ pf.result[k].monitor = pf.args.config_name

\* A section with a row that was dropped and a row that became a candidate
\* although all its four numeric fields are zero.
C25_Witness ==
    /\ pf.fn = "check_floor_rows" /\ pf.done
    /\ Len(pf.result) < Len(pf.args.data_rows)
    /\ \E k \in 1..Len(pf.result) :
        /\ pf.result[k].call_dollar.num = 0 /\ pf.result[k].put_dollar.num = 0
        /\ pf.result[k].call_qty.num = 0 /\ pf.result[k].put_qty.num = 0

\* C26: Novelty key sensitivity.  On a poll of a floor section, every row
\* whose cells differ from those of every row the section showed at an
\* earlier poll of the day (a row just edited, unless the edit made it equal
\* to a row already alerted) is returned as new, and a row that was shown
\* before is not returned again: the poll returns as many alerts as it read
\* different rows not shown before.
C26_EditedRowIsNew ==
    (pf.fn = "poll_floor" /\ pf.done) =>
        Len(pf.result.new)
            = Cardinality({ row \in Range(pf.result.rows) : row \notin pf.result.alerted })

\* The rows of pf.args.rows a net-flow call is about, and those of them
\* that have a direction.
NetFlowMatching ==
    { r \in pf.args.rows :
        /\ r.ticker = pf.args.ticker
        /\ pf.args.source # "" => r.source = pf.args.source }
NetFlowOf(direction) == { r \in NetFlowMatching : r.direction = direction }
DollarsOf(rows) == SumRows(rows, "call_dollar") + SumRows(rows, "put_dollar")

\* C27: query_net_flow returns as bullish_dollar and bearish_dollar the sums
\* of call_dollar + put_dollar over the stored rows of the ticker (and of the
\* source, if one is given) whose direction is BULLISH and BEARISH, and a
\* direction that is BULLISH iff bullish_dollar > bearish_dollar, BEARISH iff
\* bearish_dollar > bullish_dollar and NEUTRAL otherwise.
C27_NetFlowSums ==
    (pf.fn \in {"allday_db.query_net_flow", "unified_db.query_net_flow"} /\ pf.done) =>
        /\ pf.result.bullish_dollar = DollarsOf(NetFlowOf("BULLISH"))
        /\ pf.result.bearish_dollar = DollarsOf(NetFlowOf("BEARISH"))
        /\ pf.result.direction = "BULLISH" <=> pf.result.bullish_dollar > pf.result.bearish_dollar
        /\ pf.result.direction = "BEARISH" <=> pf.result.bearish_dollar > pf.result.bullish_dollar
        /\ pf.result.direction \in {"BULLISH", "BEARISH", "NEUTRAL"}

\* C28: a stored row is counted in at most one of the bullish and the bearish
\* aggregate of query_net_flow and of every expiry of
\* query_net_flow_by_expiry: the two counts are the numbers of rows whose
\* direction is BULLISH and BEARISH, and a row whose insights hold both words
\* has the direction BULLISH.
C28_RowCountedOnce ==
    /\ (pf.fn \in {"allday_db.query_net_flow", "unified_db.query_net_flow"} /\ pf.done) =>
            /\ pf.result.bullish_count = Cardinality(NetFlowOf("BULLISH"))
            /\ pf.result.bearish_count = Cardinality(NetFlowOf("BEARISH"))
    /\ (pf.fn = "allday_db.query_net_flow_by_expiry" /\ pf.done) =>
            \A k \in 1..Len(pf.result) :
                LET group(direction) ==
                        { r \in NetFlowOf(direction) :
                            /\ r.xmonth = pf.result[k].xmonth /\ r.xdate = pf.result[k].xdate
                            /\ r.xyear = pf.result[k].xyear }
                IN  /\ pf.result[k].bullish_count = Cardinality(group("BULLISH"))
                    /\ pf.result[k].bearish_count = Cardinality(group("BEARISH"))

\* The header "Calls  Qty\n" is at place i of the header row and the
\* headers before it are the ticker header or empty.
QtyHeaderAt(i) ==
    /\ i \in 1..Len(pf.args.headers)
    /\ pf.args.headers[i] = "Calls  Qty\n"
    /\ \A j \in 1..(i - 1) : pf.args.headers[j] \in {"Ticker", ""}

\* C29 as stated: find_column_index given the header "Calls  Qty\n" and the
\* single pattern "call qty" returns the index of that header.
C29_HeaderMatchesSingular ==
    (pf.fn = "find_column_index" /\ pf.done /\ pf.args.patterns = <<"call qty">>) =>
        \A i \in 1..Len(pf.args.headers) : QtyHeaderAt(i) => pf.result = i - 1

\* C29 amended: the match is a substring test on the header with its
\* whitespace collapsed and its letters lower-cased.  The header
\* "Calls  Qty\n" is found by the single pattern "calls qty", in any case of
\* the pattern's letters, and is not found by the pattern "call qty", which
\* is not a substring of "calls qty".
C29_HeaderMatchesPlural ==
    (pf.fn = "find_column_index" /\ pf.done /\ Len(pf.args.patterns) = 1) =>
        \A i \in 1..Len(pf.args.headers) :
            QtyHeaderAt(i) =>
                /\ pf.args.patterns[1] \in {"calls qty", "CALLS QTY"} => pf.result = i - 1
                /\ pf.args.patterns[1] = "call qty" => pf.result # i - 1

\* The header after the ticker header was found by the pattern "calls qty".
C29_Witness ==
    /\ pf.fn = "find_column_index" /\ pf.done
    /\ pf.args.headers = <<"Ticker", "Calls  Qty\n">>
    /\ pf.args.patterns = <<"calls qty">>
    /\ pf.result = 1

\* C30: Numeric field invariant.  Every entry _parse_rows produces and
\* every row _insert_entries stores has call_qty, put_qty, call_dollar and
\* put_dollar >= 0, whatever text the cells hold.
C30_NumbersNotNegative ==
    pf.fn = "_parse_rows" =>
        /\ \A i \in 1..Len(pf.result.entries) :
            /\ pf.result.entries[i].call_qty.num >= 0
            /\ pf.result.entries[i].put_qty.num >= 0
            /\ pf.result.entries[i].call_dollar.num >= 0
            /\ pf.result.entries[i].put_dollar.num >= 0
        /\ \A r \in pf.result.flow_orders :
            /\ r.call_qty.num >= 0 /\ r.put_qty.num >= 0
            /\ r.call_dollar.num >= 0 /\ r.put_dollar.num >= 0

\* A parser call has returned or raised.
ParseDone == pf.fn \in {"parse_dollar", "parse_qty"} /\ pf.done

\* C31: both parsers take a trailing K, M or B in either case as a factor of
\* 1e3, 1e6 or 1e9: "2K" and "2k" give 2000, "2M" and "2m" give 2000000,
\* "2B" and "2b" give 2000000000, from parse_dollar and from parse_qty.
C31_SuffixesOfBothParsers ==
    ParseDone =>
        /\ pf.args.value \in {"2K", "2k"} => pf.result = Float(2000, 1)
        /\ pf.args.value \in {"2M", "2m"} => pf.result = Float(2000000, 1)
        /\ pf.args.value \in {"2B", "2b"} => pf.result = Float(2000000000, 1)

\* C32: the parsers never raise; an empty or blank text, a lone suffix
\* letter, a lone "$" and a text that is not a number give 0.0; "$1,234,567"
\* gives 1234567, "$1.2M" gives 1200000 and "500K" gives 500000.
C32_NeverRaisesZeroOnFailure ==
    ParseDone =>
        /\ pf.result # Raised
        /\ pf.args.value \in {"", " ", "\t\n", "K", "m", "B", "$", "abc", "N/A", "nan", "-inf"}
                => pf.result = Float(0, 1)
        /\ pf.args.value = "500K" => pf.result = Float(500000, 1)
        /\ pf.fn = "parse_dollar" =>
                /\ pf.args.value = "$1,234,567" => pf.result = Float(1234567, 1)
                /\ pf.args.value = "$1.2M" => pf.result = Float(1200000, 1)

\* C33: Date-bounded queries exclude unparsable dates.  A query with a
\* lookback window (days > 0) returns no stored row whose order_date is not
\* a month/day/year date; a query without window returns such a row when
\* the other filters let it pass.
C33_UnparsableDateExcluded ==
    (pf.fn \in {"app.query_flow", "query_flow.main"} /\ pf.done) =>
        \A r \in pf.args.rows :
            parse_order_date(r.order_date) = None =>
                /\ pf.args.days > 0 => r.id \notin pf.result.entries
                /\ (/\ pf.args.days = 0 /\ r.ticker = pf.args.ticker
                    /\ pf.args.source \in {"", r.source} /\ pf.args.side \in {"both", r.side}
                    /\ r.call_dollar + r.put_dollar >= pf.args.min_dollar)
                        => r.id \in pf.result.entries

\* C34: send_telegram attempts every configured recipient even after an
\* earlier one failed, returns success exactly when every recipient's
\* delivery succeeded, attempts nothing and returns failure when the bot
\* token or the recipient list is not configured, and never raises.
C34_FanOutNeverRaises ==
    (pf.fn = "send_telegram" /\ pf.done) =>
        LET configured == pf.args.bot_token # "" /\ pf.args.chat_id # ""
            recipients == chat_ids_of(pf.args.chat_id)
        IN /\ ~pf.result.raised
           /\ ~configured => (~pf.result.ok /\ pf.result.attempted = <<>>)
           /\ configured =>
                /\ pf.result.attempted = recipients
                /\ pf.result.ok =
                     (\A i \in 1..Len(recipients) : pf.args.responses[i] = "ok")

ByExpiryDone == pf.fn = "allday_db.query_net_flow_by_expiry" /\ pf.done

OneAggregatePer(keys) ==
    /\ Len(pf.result) = Cardinality(keys)
    /\ \A k \in keys :
        Cardinality({ i \in 1..Len(pf.result) :
            <<pf.result[i].xmonth, pf.result[i].xdate, pf.result[i].xyear>> = k }) = 1
    /\ \A i \in 1..Len(pf.result) - 1 :
        Abs(pf.result[i].bullish_dollar - pf.result[i].bearish_dollar)
            >= Abs(pf.result[i + 1].bullish_dollar - pf.result[i + 1].bearish_dollar)

\* C36, as stated: query_net_flow_by_expiry returns one aggregate per distinct
\* (xmonth, xdate, xyear) of the ticker's rows, in descending order of the
\* absolute net dollar flow.
C36_OneAggregatePerExpiry ==
    ByExpiryDone =>
        OneAggregatePer({ <<r.xmonth, r.xdate, r.xyear>> :
                            r \in { q \in pf.args.rows : q.ticker = pf.args.ticker } })

\* C36, amended: query_net_flow_by_expiry returns one aggregate per distinct
\* (xmonth, xdate, xyear) of the ticker's rows that have both xmonth and
\* xdate, in descending order of the absolute net dollar flow; rows without
\* an expiry month or day are in no aggregate.
C36_OneAggregatePerDatedExpiry ==
    ByExpiryDone =>
        OneAggregatePer({ <<r.xmonth, r.xdate, r.xyear>> :
                            r \in { q \in pf.args.rows : /\ q.ticker = pf.args.ticker
                                                         /\ q.xmonth # "" /\ q.xdate # "" } })

\* A query of a ticker with two expiries of different absolute net flow and a
\* row without expiry.
C36_Witness ==
    /\ ByExpiryDone
    /\ Len(pf.result) = 2
    /\ Abs(pf.result[1].bullish_dollar - pf.result[1].bearish_dollar)
         > Abs(pf.result[2].bullish_dollar - pf.result[2].bearish_dollar)
    /\ \E r \in pf.args.rows : r.ticker = pf.args.ticker /\ r.xmonth = ""

\* The polls i, i+1, i+2 of the window read `first`, `second`, `third` (as
\* cleaned values), none of them in a dry run.
PollsRead(i, first, second, third) ==
    LET polls == pf.result.polls
    IN  /\ i + 2 <= Len(polls)
        /\ \A k \in i..(i + 2) : polls[k].has_cell /\ ~polls[k].dry_run
        /\ polls[i].value_clean = first
        /\ polls[i + 1].value_clean = second
        /\ polls[i + 2].value_clean = third

\* C38: a poll of check_signal that is not a dry run calls the transport
\* exactly when the cleaned cell is "buy calls" or "buy puts" and differs
\* from the last-seen value persisted before the poll, and a dry run never
\* calls it; after a poll whose cleaned cell differs from last-seen, the
\* persisted last-seen is that value, whether it is a buy signal or not,
\* whether the poll is a dry run or not, and however the send ends.  So the
\* polls Buy Puts, Chop, Buy Puts end with a second alert, and a poll that
\* reads the value of the poll before it sends nothing.
C38_SignalStateMachine ==
    (pf.fn = "check_signal" /\ pf.done) =>
        LET data == pf.args.data
            changed == HasCell(data) /\ value_clean_of(data) # pf.result.before
            polls == pf.result.polls
        IN  /\ pf.result.sent =
                 (/\ changed /\ value_clean_of(data) \in BUY_SIGNALS
                  /\ ~pf.args.dry_run)
            /\ spx_last = IF changed THEN value_clean_of(data) ELSE pf.result.before
            /\ \A i \in 1..Len(polls) :
                 PollsRead(i, "buy puts", "chop", "buy puts")
                    => (~polls[i + 1].sent /\ polls[i + 2].sent)
            /\ \A i \in 2..Len(polls) :
                 (/\ polls[i].has_cell /\ polls[i - 1].has_cell
                  /\ polls[i].value_clean = polls[i - 1].value_clean)
                    => ~polls[i].sent

\* Buy Puts, Chop, Buy Puts in three polls: both buy signals were sent, the
\* send of the latest one raised, and last-seen holds it all the same.
C38_Witness ==
    /\ pf.fn = "check_signal" /\ pf.done
    /\ PollsRead(1, "buy puts", "chop", "buy puts")
    /\ pf.result.polls[1].sent /\ pf.result.polls[3].sent
    /\ pf.result.raised
    /\ spx_last = "buy puts"

SeedRun == pf.fn = "run_monitor_loop.main"

\* C37: the first market-hours cycle of the loop runs the threshold engine,
\* the novelty engine and the SPX monitor in dry-run: the transport is not
\* called in it, while the candidates it finds are in the saved dedup state
\* for the rest of that day and the signal it reads is last-seen at its end;
\* no message sent later on that day holds a candidate of the first cycle;
\* and no engine run of a later cycle is a dry run.
C37_FirstRunSeeds ==
    SeedRun =>
        /\ ~pf.result.first_sent
        /\ (loop.first_run /\ loop.pc # "sleep") => loop.argv_dry
        /\ today = pf.result.day =>
              \A c \in pf.result.cands :
                  files[c[1]].exists /\ files[c[1]].date = today /\ c[2] \in files[c[1]].seen
        /\ (loop.first_run /\ loop.pc = "end" /\ pf.result.first_spx # NoSignal)
              => spx_last = pf.result.first_spx
        /\ ~pf.result.redelivered
        /\ ~pf.result.dry_later
        /\ ~loop.first_run => ~loop.argv_dry

\* A later cycle of the day of the first cycle, not a dry run, found a
\* candidate of the first cycle again, after a first cycle that had read a
\* buy signal.
C37_Witness ==
    /\ SeedRun
    /\ pf.result.cands # {} /\ spx_last \in BUY_SIGNALS
    /\ pf.result.offered_again
    /\ today = pf.result.day
    /\ ~loop.first_run /\ ~loop.argv_dry /\ loop.pc = "end"

\* The t-th background thread has been started and has not left
\* _run_refresh.
RefreshActive(t) == t \in 1..Len(rf.threads) /\ rf.threads[t] # "exited"

RefreshExited(t) == t \in 1..Len(rf.threads) /\ rf.threads[t] = "exited"

\* A step in which a thread leaves _run_refresh leaves the flag false.
ExitResetsFlag ==
    \A t \in 1..Len(rf.threads) :
        (rf.threads[t] # "exited" /\ rf'.threads[t] = "exited") => ~rf'.running

\* A step in which init_db or load_all of a thread ends either sets
\* last_error and leaves last_result as it was, or (load_all only) stores the
\* thread's result and clears last_error.
OutcomeStored ==
    \A t \in 1..Len(rf.threads) :
        (rf.threads[t] \in {"init_db", "load_all"} /\ rf'.threads[t] \notin {"init_db", "load_all"})
            => \/ rf'.threads[t] = "load_all"
               \/ /\ rf'.threads[t] = "finally"
                  /\ rf'.last_error = "error" /\ rf'.last_result = rf.last_result
               \/ /\ rf'.threads[t] = "finally" /\ rf.threads[t] = "load_all"
                  /\ rf'.last_result = t /\ rf'.last_error = "None"

\* C40: every started background refresh eventually leaves _run_refresh, and
\* the step in which it does leaves the running flag false, whether the
\* reload succeeded or raised; the flag is true only while a refresh is
\* being started or runs, so a later request is accepted; a failure sets
\* last_error and keeps last_result, a success replaces last_result and
\* clears last_error.
C40_RefreshFlagReleased ==
    /\ \A t \in 1..MaxRequests : RefreshActive(t) ~> (RefreshExited(t) /\ ~rf.running)
    /\ [][ExitResetsFlag /\ OutcomeStored]_vars
    /\ [](rf.running =>
            \/ \E t \in 1..MaxRequests : RefreshActive(t)
            \/ \E i \in Handlers : rf.h[i].pc = "start")

\* A refresh that was accepted after an earlier one had ended, and that
\* failed: the flag is false again, last_error is set and last_result is
\* still the result of the first.
C40_Witness ==
    /\ Len(rf.threads) = 2
    /\ RefreshExited(1) /\ RefreshExited(2)
    /\ ~rf.running
    /\ rf.last_result = 1 /\ rf.last_error = "error"

\* C14: filterNew persists the state of its namespace on every call.  After
\* the latest call of filter_new_alerts, on any candidate list (empty and
\* all-seen lists included), the state file of its namespace exists, is
\* dated the day of the call, and holds the seen-set the file had before the
\* call if that was of the same day (else nothing) united with the keys of
\* all candidates.
C14_PersistsOnEveryCall ==
    obs.ns # "" =>
        /\ files[obs.ns].exists
        /\ files[obs.ns].date = obs.at
        /\ files[obs.ns].seen =
              (IF obs.stale THEN {} ELSE obs.prior) \cup Range(obs.cands)

\* A call on a new day, with a list whose candidates were all seen the day
\* before, or with an empty list, has been made.
C14_Witness ==
    /\ obs.ns # "" /\ obs.stale /\ obs.at = today
    /\ obs.cands = <<>>
    /\ obs.prior # {}

-----------------------------------------------------------------------------
(* Claims about the record store *)

\* C6: Store reload is atomic for readers.  A read that happens during a
\* reload never sees the rows of the reloaded sources as neither the prior
\* rows nor the new rows.
C6_ReloadAtomicForReaders == ~rd.partial

\* C7: A failed reload leaves prior data intact.  When a load has raised,
\* the committed rows and loaded_date are those from before the load.
C7_FailedReloadLeavesPriorData == ld.outcome = "raised" => ld.intact

\* C16: Reload affects only the reloaded sources.  After load_all(sources)
\* has completed, the stored rows of the loaded sources are exactly the
\* newly parsed entries, and the stored rows of every other source are those
\* from before the load.
C16_ReloadAffectsOnlyReloaded == ld.outcome = "ok" => (ld.exact /\ ld.others)

-----------------------------------------------------------------------------
(* Claims about the dashboard's refresh *)

\* C8: Refresh re-entrancy.  At no time are two background refreshes
\* running; a refresh is running only while the flag is set; a request that
\* found the flag set started no refresh and returned already_running, and
\* a request that found it clear started exactly one and returned started.
C8_RefreshReentrancy ==
    /\ Cardinality(ActiveRefreshes) <= 1
    /\ ActiveRefreshes # {} => rf.running
    /\ \A i \in Handlers :
        rf.h[i].pc = "done" =>
            IF rf.h[i].saw
            THEN rf.h[i].ret = "already_running" /\ rf.h[i].started = 0
            ELSE rf.h[i].ret = "started" /\ rf.h[i].started = 1

\* A request was refused while the refresh another request started was
\* running, after an earlier refresh had already finished.
C8_Witness ==
    /\ \E i, j \in Handlers :
        /\ rf.h[i].pc = "done" /\ rf.h[i].ret = "already_running"
        /\ rf.h[j].pc = "done" /\ rf.h[j].ret = "started"
    /\ ActiveRefreshes # {}
    /\ Len(rf.threads) = 2

-----------------------------------------------------------------------------
(* Claims about multi_source_check *)

\* C9: Multi-source confirmation.  After a run of check_multi_source, the
\* confirmations it built hold exactly one candidate for every ticker that
\* is in both feeds with equal, non-NEUTRAL directions, and none for any
\* other ticker.
C9_OneCandidatePerAlignedTicker ==
    ms.op = "multi" =>
        \A t \in Tickers : Count(ms.cands, t) = (IF t \in ms.aligned THEN 1 ELSE 0)

\* C10: Opposite-order detection marks every row checked.  After a run of
\* check_opposite_orders on a non-empty 7Day feed, the key of every row of
\* the feed is in the persisted set of checked rows.
C10_EveryRowMarkedChecked ==
    (ms.op = "opposite" /\ ms.keys # {}) =>
        /\ mstate["ROWS_SEEN_STATE"].exists
        /\ ms.keys \subseteq mstate["ROWS_SEEN_STATE"].seen

-----------------------------------------------------------------------------
(* Claims about the poll cycle *)

\* The feeds a cycle reads through the two alert engines: the 7Day sheet and
\* the Floor sections.
CycleFeeds == {"7Day"} \cup FLOOR_CONFIGS

\* C11: Transport-failure isolation within a cycle.  At the end of a cycle
\* in which the read of one feed or Floor section raised, every other feed
\* and every other Floor section has been read and processed in that cycle.
C11_TransportFailureIsolated ==
    (loop.pc = "end" /\ Cardinality(cyc.read_err) = 1) =>
        \A f \in CycleFeeds \ cyc.read_err : f \in cyc.processed

-----------------------------------------------------------------------------
(* Claims about a run of the novelty engine *)

\* C12: Novelty engine section independence.  When a run of the novelty
\* engine has ended without a read error, it has not raised, and every
\* section that is configured with a well-formed range has been read and
\* processed, whatever the range strings of the other sections.
C12_SectionIndependence ==
    (fr.pc \in {"returned", "raised"} /\ fr.raised # "HttpError") =>
        /\ fr.raised = ""
        /\ \A i \in FloorSections :
            section_range(fr.config[i]) = "read" => FLOOR_CONFIG_LIST[i] \in fr.processed

\* The engines of a cycle in the order main invokes them.
EngineOrder == <<"7dte", "floor", "spx">>

IsPrefix(s, t) == Len(s) <= Len(t) /\ \A i \in 1..Len(s) : s[i] = t[i]

\* C13 as stated: in a cycle the Novelty (floor) engine is invoked first,
\* then the Threshold (7DTE) engine.
C13_FloorBefore7Dte == IsPrefix(cyc.ran, <<"floor", "7dte", "spx">>)

\* C13, amended: Engine ordering within a poll cycle.  In every market-hours
\* cycle the engines are invoked in the order Threshold (7DTE), Novelty
\* (floor), SPX signal, each after the one before it has ended, and a cycle
\* that reaches its end has invoked all three.
C13_EngineOrder ==
    /\ IsPrefix(cyc.ran, EngineOrder)
    /\ loop.pc = "floor" => cyc.ran \in {<<"7dte">>, <<"7dte", "floor">>}
    /\ loop.pc = "spx" => cyc.ran = <<"7dte", "floor">>
    /\ loop.pc = "end" => cyc.ran = EngineOrder

\* A cycle after the first one has run all three engines.
C13_Witness == loop.pc = "end" /\ ~loop.first_run /\ cyc.ran = EngineOrder

-----------------------------------------------------------------------------
(* Claims about the historical store *)

\* C17: isLoadedToday is true iff the metadata holds today's date.  Every
\* call of is_db_loaded_today returned TRUE exactly when the stored
\* loaded_date was the date of the call; and in every state it is FALSE
\* while no load has succeeded (the missing table included), TRUE after a
\* load that succeeded on the current date, and FALSE when the date of the
\* last successful load is not the current date.
C17_LoadedTodayIffDateMatches ==
    /\ (pf.fn = "is_db_loaded_today" /\ pf.done) =>
            (pf.result <=> pf.args[1] = pf.args[2])
    /\ al.stamp = -1 => ~is_db_loaded_today(db_loaded_date, today)
    /\ al.fresh => is_db_loaded_today(db_loaded_date, today)
    /\ (al.stamp # -1 /\ al.stamp # today) => ~is_db_loaded_today(db_loaded_date, today)

\* is_db_loaded_today was called on a loaded database after the date had
\* changed.
C17_Witness ==
    /\ pf.fn = "is_db_loaded_today" /\ pf.done /\ ~pf.result
    /\ pf.args[1] = 0 /\ pf.args[2] = 1
    /\ al.stamp = 0 /\ today = 1

\* The criteria of query_opposite_orders, for a stored row r and a call q.
SameTickerAndSide(r, q) == r.ticker = q.ticker /\ r.side = q.opposite_side
SameCallQty(r, q) == r.call_qty = q.call_qty /\ r.call_qty > 0
SamePutQty(r, q) == r.put_qty = q.put_qty /\ r.put_qty > 0

\* str without a trailing ".0".
StripPointZero(str) ==
    IF Len(str) >= 2 /\ str[Len(str) - 1] = "." /\ str[Len(str)] = "0"
    THEN SubSeq(str, 1, Len(str) - 2)
    ELSE str

\* n is str without its trailing zeros and then without its trailing points,
\* for a str that holds a point; n is str for a str that holds none.
IsNormalForm(n, str) ==
    IF \A i \in 1..Len(str) : str[i] # "."
    THEN n = str
    ELSE \E k \in 0..Len(str) : \E j \in k..Len(str) :
            /\ n = SubSeq(str, 1, k)
            /\ \A i \in (k + 1)..j : str[i] = "."
            /\ \A i \in (j + 1)..Len(str) : str[i] = "0"
            /\ (j = 0 \/ str[j] # "0")
            /\ (k = 0 \/ str[k] # ".")

SameStrikeExpiryAsStated(r, q) ==
    /\ (r.strike = q.strike \/ r.strike = StripPointZero(q.strike))
    /\ r.xmonth = q.xmonth /\ r.xdate = q.xdate

SameStrikeExpiry(r, q) ==
    /\ q.strike # <<>> /\ q.xmonth # "" /\ q.xdate # ""
    /\ (r.strike = q.strike \/ IsNormalForm(r.strike, q.strike))
    /\ r.xmonth = q.xmonth /\ r.xdate = q.xdate

ReturnedIds == {pf.result[i].id : i \in 1..Len(pf.result)}
OppositeDone == pf.fn = "query_opposite_orders" /\ pf.done

C19_OncePerRowFirstReason ==
    OppositeDone =>
        /\ \A i, j \in 1..Len(pf.result) :
                pf.result[i].id = pf.result[j].id => i = j
        /\ \A i \in 1..Len(pf.result) :
            \E r \in pf.args.rows :
                /\ r.id = pf.result[i].id
                /\ pf.result[i].match_reason =
                    IF SameCallQty(r, pf.args) THEN "Same Call Qty"
                    ELSE IF SamePutQty(r, pf.args) THEN "Same Put Qty"
                    ELSE "Same Strike + Expiry"

\* A row that satisfies the three criteria was returned with the reason
\* "Same Call Qty".
C19_Witness ==
    /\ OppositeDone
    /\ \E r \in pf.args.rows :
        /\ SameTickerAndSide(r, pf.args)
        /\ SameCallQty(r, pf.args) /\ SamePutQty(r, pf.args)
        /\ SameStrikeExpiry(r, pf.args)
        /\ \E i \in 1..Len(pf.result) :
            pf.result[i].id = r.id /\ pf.result[i].match_reason = "Same Call Qty"

-----------------------------------------------------------------------------
(* Claims about the threshold engine *)

\* The candidates of check_side for the sheet row n whose field is on the
\* call side, and on the put side.
CallCandidates(n) ==
    {i \in 1..Len(pf.result) :
        pf.result[i].row = n /\ pf.result[i].field \in {"Call", "Call$", "Call Qty"}}
PutCandidates(n) ==
    {i \in 1..Len(pf.result) :
        pf.result[i].row = n /\ pf.result[i].field \in {"Put", "Put$", "Put Qty"}}

\* C20: Threshold rule.  For every row, check_side gives one call candidate
\* when the row's call dollars are above the dollar threshold or its call
\* quantity is above the quantity threshold and none otherwise, and the same
\* for puts; a value equal to its threshold does not count.  (Rows with a
\* ticker.)
C20_OneCandidatePerRowAndSide ==
    (pf.fn = "check_side" /\ pf.done) =>
        \A k \in 1..Len(pf.args.data_rows) :
            LET row == pf.args.data_rows[k]
                th == pf.args.thresholds
                has(col) == col \in pf.args.headers
            IN  strip(row.ticker) # "" =>
                /\ Cardinality(CallCandidates(k + 4)) =
                    IF \/ has("call $") /\ above(parse_dollar(row.call_dollar), th.dollar)
                       \/ has("call qty") /\ above(parse_qty(row.call_qty), th.qty)
                    THEN 1 ELSE 0
                /\ Cardinality(PutCandidates(k + 4)) =
                    IF \/ has("put $") /\ above(parse_dollar(row.put_dollar), th.dollar)
                       \/ has("put qty") /\ above(parse_qty(row.put_qty), th.qty)
                    THEN 1 ELSE 0

\* C21: A row whose ticker cell is empty or whitespace-only is dropped before
\* any further evaluation.  Every candidate check_side returns comes from a
\* row whose ticker cell holds something other than whitespace.
C21_BlankTickerRowDropped ==
    (pf.fn = "check_side" /\ pf.done) =>
        \A i \in 1..Len(pf.result) :
            strip(pf.args.data_rows[pf.result[i].row - 4].ticker) # ""

====
